---------------------------- MODULE Spec2Model ----------------------------
(***************************************************************************)
(* Model of quantops.backtesting.backtester.Backtester, of                  *)
(* quantops.strategies.momentum.MomentumStrategy, of the indicator         *)
(* functions of quantops.utils.indicators, and of the start and stop of    *)
(* quantops.core.engine.TradingEngine behind the API of quantops.api.app.  *)
(*                                                                         *)
(* Numbers.  The Python code computes on floats; the model computes the    *)
(* same expressions exactly, on integers that carry a fixed denominator:   *)
(*   slippage    s  stands for s / SlipDen      (1 is the default 0.0005)  *)
(*   commission  c  stands for c / CommDen      (1 is the default 0.001)   *)
(*   amount      a  stands for a / AmtDen       (1 is 0.1 units)           *)
(*   a price     p  is a whole number of money units (one unit = 10^4)     *)
(*   money       m  stands for m / MoneyScale money units                  *)
(* so 100000.0 is 10 money units, i.e. the integer 10 * MoneyScale, and    *)
(* the reference price 50000 is the price 5.                               *)
(*                                                                         *)
(* Control.  Calls are sequential (one logical clock, no concurrent use of *)
(* an instance): reset() is called between runs, and a run is four kinds   *)
(* of step: its entry, which resets the instance; the reading of its       *)
(* arguments; one step per bar of the primary frame; and its return.       *)
(*                                                                         *)
(* Specifications.  Spec: any signal the code accepts.  SpecPos: signals   *)
(* with amount > 0.  SpecHeld: the caller keeps a returned result while it *)
(* goes on using the instance.  SpecSeq: each bar is two steps, before and *)
(* after the awaited strategy call.  SpecMetrics: _calculate_metrics by    *)
(* itself on given equity curves.  SpecIndicators: calculate_sma,          *)
(* calculate_rsi and normalize_data by themselves on given series.         *)
(* SpecSignal: MomentumStrategy.generate_signal by itself on given         *)
(* snapshots.  SpecMomentum: runs of the Backtester on a MomentumStrategy. *)
(* SpecApi: start and stop requests interleaved with the calls of          *)
(* TradingEngine.start they schedule, one step per stretch of code between *)
(* two awaits that suspend; SpecApiFair: the same, every ready coroutine   *)
(* being resumed.  SpecAbort: runs on a strategy that may raise.           *)
(* SpecCosts: runs with rates up to 300% and prices down to 0.  SpecGaps:  *)
(* runs on two instruments, the second with bars missing.                  *)
(***************************************************************************)
EXTENDS Integers, Sequences, FiniteSets, TLC

SlipDen == 2000
CommDen == 1000
AmtDen == 10
MoneyScale == SlipDen * CommDen * AmtDen

\* Longest primary bar sequence a run replays.
MaxBars == 2

\* Longest equity curve the metrics are computed on by themselves.
MaxCurve == 4

\* Longest series an indicator function is applied to by itself, and the
\* largest period it is given.
MaxSeries == 4
MaxPeriod == 3

\* Longest bar sequence a MomentumStrategy is run on.
MaxHistory == 51

\* Python's None (unequal to every signal and every result).
None == [none |-> TRUE]

BTC == "BTC/USDT"
ETH == "ETH/USDT"
Symbols == {BTC, ETH}

-----------------------------------------------------------------------------
(* Inputs: constructor arguments, historical data, signals.                *)

InitialCapitals == {0, 10 * MoneyScale}
Commissions == {0, 1, CommDen}
Slippages == {0, 1, SlipDen}

Prices == {1, 5}

\* One PriceBar (a row of an OHLCV dataframe).
Bar(t, c) ==
    [timestamp |-> t, open |-> c, high |-> c + 1, low |-> c - 1,
     close |-> c, volume |-> 1]

\* Dataframes of the primary instrument: bars at timestamps 1..n.
PrimaryFrames ==
    UNION { { [i \in 1..n |-> Bar(i, cs[i])] : cs \in [1..n -> Prices] }
            : n \in 0..MaxBars }

\* Dataframes of a second instrument, resampled onto the primary's clock.
SecondaryFrames ==
    { <<Bar(2, 5)>>, <<Bar(1, 5), Bar(2, 1)>> }

\* historical_data: an insertion-ordered dict, symbol -> dataframe; the
\* empty dict is a dataset with no instrument at all.
HistoricalData ==
    { <<>> }
    \cup { << [symbol |-> BTC, df |-> p] >> : p \in PrimaryFrames }
    \cup { << [symbol |-> BTC, df |-> p], [symbol |-> ETH, df |-> q] >> :
             p \in PrimaryFrames, q \in SecondaryFrames }

\* run's optional start_date and end_date: a timestamp (timestamps are
\* 1, 2, ...), or NoDate for the default None.
NoDate == 0
StartDates == {NoDate, 2}
EndDates == {NoDate, 1}

\* Amounts a strategy may put in a signal; the code accepts any number.
Amounts == {-1, 0, 1, 20}
PositiveAmounts == {a \in Amounts : a > 0}

SignalsOf(amts) ==
    [action : {"buy", "sell"}, symbol : Symbols, amount : amts]

\* What generate_signal may return: a signal or None.
AnySignals == {None} \cup SignalsOf(Amounts)
ValidSignals == {None} \cup SignalsOf(PositiveAmounts)

\* Series the indicator functions are applied to: finite numbers, here
\* whole prices.
SeriesValues == {1, 2, 4}
SeriesInputs == UNION { [1..n -> SeriesValues] : n \in 0..MaxSeries }
Periods == 1..MaxPeriod

-----------------------------------------------------------------------------
(* Python helpers.                                                         *)

\* dict.get(key, default) on a dict modelled as a function.
Get(d, k, default) == IF k \in DOMAIN d THEN d[k] ELSE default

\* d with d[k] = v set (inserting k when absent).
Put(d, k, v) == [x \in DOMAIN d \cup {k} |-> IF x = k THEN v ELSE d[x]]

\* del d[k]
Del(d, k) == [x \in DOMAIN d \ {k} |-> d[x]]

EmptyDict == [x \in {} |-> 0]

RECURSIVE SumOver(_, _)
SumOver(f, S) ==
    IF S = {} THEN 0
    ELSE LET x == CHOOSE y \in S : TRUE
         IN  f[x] + SumOver(f, S \ {x})

\* df[df["timestamp"] <= timestamp]: the rows that pass, in order.
RECURSIVE UpTo(_, _)
UpTo(frame, timestamp) ==
    IF frame = <<>> THEN <<>>
    ELSE IF Head(frame).timestamp <= timestamp
         THEN <<Head(frame)>> \o UpTo(Tail(frame), timestamp)
         ELSE UpTo(Tail(frame), timestamp)

-----------------------------------------------------------------------------
(* Numbers computed by division.  A quotient is kept exactly, as a fraction *)
(* in lowest terms with a positive denominator; a division by zero gives   *)
(* what numpy's float division gives (nan, inf or -inf, with a warning and  *)
(* no exception).                                                          *)

Abs(n) == IF n < 0 THEN -n ELSE n

RECURSIVE GCD(_, _)
GCD(a, b) == IF b = 0 THEN a ELSE GCD(b, a % b)

NaN == [nan |-> TRUE]
PosInf == [inf |-> 1]
NegInf == [inf |-> -1]

IsFinite(x) == "num" \in DOMAIN x

\* The fraction n / d, d # 0, in lowest terms.
Fraction(n, d) ==
    LET g == GCD(Abs(n), Abs(d))
        sign == IF d < 0 THEN -1 ELSE 1
    IN  [num |-> sign * (n \div g), den |-> sign * (d \div g)]

\* n / d as numpy divides floats.
Divide(n, d) ==
    IF d # 0 THEN Fraction(n, d)
    ELSE IF n = 0 THEN NaN
    ELSE IF n > 0 THEN PosInf
    ELSE NegInf

\* The Python literal 0, equal to the float 0.0.
Zero == Fraction(0, 1)

\* x * 100.  The product of a fraction is kept as written, the hundredfold
\* of the fraction (its numerator times 100 need not fit a machine integer);
\* nan and the infinities are their own hundredfold.
Times100(x) ==
    IF ~IsFinite(x) THEN x ELSE [hundredfold_of |-> x]

\* x < y for two fractions, compared by their continued fractions (no
\* product is formed).
RECURSIVE Less(_, _)
Less(x, y) ==
    LET qx == x.num \div x.den
        qy == y.num \div y.den
        rx == x.num % x.den
        ry == y.num % y.den
    IN  IF qx # qy THEN qx < qy
        ELSE IF ry = 0 THEN FALSE
        ELSE IF rx = 0 THEN TRUE
        ELSE Less([num |-> y.den, den |-> ry], [num |-> x.den, den |-> rx])

\* x < y for two floats neither of which is nan.
FloatLess(x, y) ==
    IF x = y THEN FALSE
    ELSE IF x = NegInf \/ y = PosInf THEN TRUE
    ELSE IF x = PosInf \/ y = NegInf THEN FALSE
    ELSE Less(x, y)

\* np.min of a non-empty array of floats: nan if any entry is nan.
NpMin(a) ==
    IF \E i \in 1..Len(a) : a[i] = NaN THEN NaN
    ELSE a[CHOOSE i \in 1..Len(a) : \A j \in 1..Len(a) : ~FloatLess(a[j], a[i])]

\* np.maximum.accumulate
RECURSIVE MaximumAccumulate(_)
MaximumAccumulate(a) ==
    IF Len(a) <= 1 THEN a
    ELSE LET front == MaximumAccumulate(SubSeq(a, 1, Len(a) - 1))
             top == front[Len(front)]
         IN  Append(front, IF a[Len(a)] > top THEN a[Len(a)] ELSE top)

-----------------------------------------------------------------------------
(* Float arithmetic on fractions, nan and the infinities, as IEEE division  *)
(* and addition define it (no exception is raised).                        *)

FloatNeg(x) ==
    IF x = NaN THEN NaN
    ELSE IF x = PosInf THEN NegInf
    ELSE IF x = NegInf THEN PosInf
    ELSE Fraction(-x.num, x.den)

FloatAdd(x, y) ==
    IF x = NaN \/ y = NaN THEN NaN
    ELSE IF ~IsFinite(x) THEN (IF IsFinite(y) \/ y = x THEN x ELSE NaN)
    ELSE IF ~IsFinite(y) THEN y
    ELSE Fraction(x.num * y.den + y.num * x.den, x.den * y.den)

FloatSub(x, y) == FloatAdd(x, FloatNeg(y))

FloatDivide(x, y) ==
    IF x = NaN \/ y = NaN THEN NaN
    ELSE IF ~IsFinite(x)
         THEN IF ~IsFinite(y) THEN NaN
              ELSE IF (y.num >= 0) = (x = PosInf) THEN PosInf ELSE NegInf
    ELSE IF ~IsFinite(y) THEN Zero
    ELSE IF y.num = 0 THEN Divide(x.num, 0)
    ELSE Fraction(x.num * y.den, x.den * y.num)

\* x <= y on floats: False when either is nan.
FloatLessEq(x, y) ==
    x # NaN /\ y # NaN /\ (x = y \/ FloatLess(x, y))

-----------------------------------------------------------------------------
(* quantops.utils.indicators.  A pd.Series is the sequence of its values;  *)
(* the inputs are sequences of integers (prices), the outputs sequences of *)
(* floats.                                                                 *)

\* Sum of x[a..b].
RECURSIVE SumRange(_, _, _)
SumRange(x, a, b) == IF a > b THEN 0 ELSE x[b] + SumRange(x, a, b - 1)

\* The mean of whatever part of the window is there (min_periods = 1).
RollingMean_Expanding(x, window) ==
    [i \in 1..Len(x) |->
        LET first == IF i < window THEN 1 ELSE i - window + 1
        IN  Fraction(SumRange(x, first, i), i - first + 1)]

\* x.rolling(window=window).mean() with pandas' default min_periods (the
\* window): nan until `window` values are there, then the mean of the last
\* `window` values.
RollingMean(x, window) ==
    [i \in 1..Len(x) |->
        IF i < window THEN NaN
        ELSE Fraction(SumRange(x, i - window + 1, i), window)]

\* calculate_sma, lines 8-19.
calculate_sma(data, period) == RollingMean(data, period)

\* delta = data.diff() is nan first and then the differences, and
\* delta.where(delta > 0, 0) keeps the differences > 0 and puts 0 elsewhere:
\* nan > 0 is False, so the first entry is 0.
Gains(data) ==
    [i \in 1..Len(data) |->
        IF i > 1 /\ data[i] - data[i - 1] > 0 THEN data[i] - data[i - 1] ELSE 0]

\* -delta.where(delta < 0, 0)
Losses(data) ==
    [i \in 1..Len(data) |->
        IF i > 1 /\ data[i] - data[i - 1] < 0 THEN data[i - 1] - data[i] ELSE 0]

Hundred == Fraction(100, 1)
One == Fraction(1, 1)

\* calculate_rsi that returns 100 * rs, without the mapping into [0, 100].
calculate_rsi_Unmapped(data, period) ==
    LET gain == RollingMean(Gains(data), period)
        loss == RollingMean(Losses(data), period)
    IN  [i \in 1..Len(data) |->
            FloatDivide(FloatDivide(gain[i], loss[i]), FloatDivide(One, Hundred))]

\* calculate_rsi, lines 36-54.
calculate_rsi(data, period) ==
    LET gain == RollingMean(Gains(data), period)
        loss == RollingMean(Losses(data), period)
        rs == [i \in 1..Len(data) |-> FloatDivide(gain[i], loss[i])]
    IN  [i \in 1..Len(data) |->
            FloatSub(Hundred, FloatDivide(Hundred, FloatAdd(One, rs[i])))]

\* The smallest and the largest value of a non-empty sequence of integers.
Min(data) == CHOOSE v \in {data[i] : i \in 1..Len(data)} :
                \A i \in 1..Len(data) : v <= data[i]
Max(data) == CHOOSE v \in {data[i] : i \in 1..Len(data)} :
                \A i \in 1..Len(data) : v >= data[i]

Half == Fraction(1, 2)

\* normalize_data that divides by the maximum alone.
normalize_data_ByMax(data) ==
    IF data = <<>> THEN <<>>
    ELSE IF Max(data) = Min(data) THEN [i \in 1..Len(data) |-> Half]
    ELSE [i \in 1..Len(data) |-> Divide(data[i], Max(data))]

\* normalize_data, lines 138-154.  On an empty series min() and max() are
\* nan, nan == nan is False and the quotient of the empty series is empty.
normalize_data(data) ==
    IF data = <<>> THEN <<>>
    ELSE LET min_val == Min(data)
             max_val == Max(data)
         IN  IF max_val = min_val THEN [i \in 1..Len(data) |-> Half]
             ELSE [i \in 1..Len(data) |->
                     Divide(data[i] - min_val, max_val - min_val)]

-----------------------------------------------------------------------------
(* Backtester.                                                             *)

\* reset that extends the equity curve instead of replacing it.
reset_AppendsEquity(self) ==
    [self EXCEPT !.capital = self.initial_capital,
                 !.positions = EmptyDict,
                 !.trades = <<>>,
                 !.equity_curve = Append(self.equity_curve, self.initial_capital),
                 !.timestamps = <<>>]

\* reset that forgets to clear the positions.
reset_KeepsPositions(self) ==
    [self EXCEPT !.capital = self.initial_capital,
                 !.trades = <<>>,
                 !.equity_curve = <<self.initial_capital>>,
                 !.timestamps = <<>>]

\* The list attributes reset empties in place, keeping the list object.
reset_rebinds_Nothing == {}

\* Backtester.reset, lines 44-46: the list attributes it binds to a new list
\* object (a list that something else refers to keeps its contents).
reset_rebinds == {"trades", "equity_curve", "timestamps"}

\* Backtester.reset
reset(self) ==
    [self EXCEPT !.capital = self.initial_capital,
                 !.positions = EmptyDict,
                 !.trades = <<>>,
                 !.equity_curve = <<self.initial_capital>>,
                 !.timestamps = <<>>]

\* Backtester.__init__: the fields set from the arguments, then reset().
__init__(initial_capital, commission, slippage) ==
    reset([initial_capital |-> initial_capital,
           commission |-> commission,
           slippage |-> slippage,
           capital |-> 0,
           positions |-> EmptyDict,
           trades |-> <<>>,
           equity_curve |-> <<>>,
           timestamps |-> <<>>])

\* _prepare_market_snapshot without the `timestamp <= timestamp` filter: every
\* instrument's whole frame, and its last row as the ticker.
_prepare_market_snapshot_WholeFrame(historical_data, timestamp) ==
    LET present == { i \in 1..Len(historical_data) : historical_data[i].df # <<>> }
        entry(sym) == CHOOSE i \in present : historical_data[i].symbol = sym
    IN  [ sym \in { historical_data[i].symbol : i \in present } |->
            LET current_data == historical_data[entry(sym)].df
                latest == current_data[Len(current_data)]
            IN  [ticker |-> [last |-> latest.close,
                             bid |-> latest.low,
                             ask |-> latest.high,
                             volume |-> latest.volume],
                 ohlcv |-> current_data] ]

\* _prepare_market_snapshot taking the ticker from the first row of the
\* selection (`iloc[0]`) instead of the last.
_prepare_market_snapshot_FirstRow(historical_data, timestamp) ==
    LET present == { i \in 1..Len(historical_data) :
                        UpTo(historical_data[i].df, timestamp) # <<>> }
        entry(sym) == CHOOSE i \in present : historical_data[i].symbol = sym
    IN  [ sym \in { historical_data[i].symbol : i \in present } |->
            LET current_data == UpTo(historical_data[entry(sym)].df, timestamp)
                latest == current_data[1]
            IN  [ticker |-> [last |-> latest.close,
                             bid |-> latest.low,
                             ask |-> latest.high,
                             volume |-> latest.volume],
                 ohlcv |-> current_data] ]

\* _prepare_market_snapshot that takes an instrument only when it has a bar
\* at the timestamp itself (`==` in place of `<=`).
_prepare_market_snapshot_ThisBarOnly(historical_data, timestamp) ==
    LET At(frame) == SelectSeq(frame, LAMBDA bar : bar.timestamp = timestamp)
        present == { i \in 1..Len(historical_data) :
                        At(historical_data[i].df) # <<>> }
        entry(sym) == CHOOSE i \in present : historical_data[i].symbol = sym
    IN  [ sym \in { historical_data[i].symbol : i \in present } |->
            LET current_data == At(historical_data[entry(sym)].df)
                latest == current_data[Len(current_data)]
            IN  [ticker |-> [last |-> latest.close,
                             bid |-> latest.low,
                             ask |-> latest.high,
                             volume |-> latest.volume],
                 ohlcv |-> current_data] ]

\* Backtester._prepare_market_snapshot
_prepare_market_snapshot(historical_data, timestamp) ==
    LET present == { i \in 1..Len(historical_data) :
                        UpTo(historical_data[i].df, timestamp) # <<>> }
        entry(sym) == CHOOSE i \in present : historical_data[i].symbol = sym
    IN  [ sym \in { historical_data[i].symbol : i \in present } |->
            LET current_data == UpTo(historical_data[entry(sym)].df, timestamp)
                latest == current_data[Len(current_data)]
            IN  [ticker |-> [last |-> latest.close,
                             bid |-> latest.low,
                             ask |-> latest.high,
                             volume |-> latest.volume],
                 ohlcv |-> current_data] ]

\* ExecuteBuy that charges commission on the price, not on the cost.
ExecuteBuy_CommissionOnPrice(self, symbol, amount, price) ==
    LET execution_price == price * (SlipDen + self.slippage)
        cost == execution_price * amount
        commission_cost == execution_price * AmtDen * self.commission
        total_cost == cost * CommDen + commission_cost
    IN  IF total_cost <= self.capital
        THEN [self EXCEPT
                !.capital = self.capital - total_cost,
                !.positions = Put(self.positions, symbol,
                                  Get(self.positions, symbol, 0) + amount),
                !.trades = Append(self.trades,
                    [timestamp |-> self.timestamps[Len(self.timestamps)],
                     action |-> "buy",
                     symbol |-> symbol,
                     amount |-> amount,
                     price |-> execution_price,
                     cost |-> total_cost])]
        ELSE self

\* ExecuteBuy without the `total_cost <= self.capital` test.
ExecuteBuy_NoFundsCheck(self, symbol, amount, price) ==
    LET execution_price == price * (SlipDen + self.slippage)
        cost == execution_price * amount
        commission_cost == cost * self.commission
        total_cost == cost * CommDen + commission_cost
    IN  [self EXCEPT
            !.capital = self.capital - total_cost,
            !.positions = Put(self.positions, symbol,
                              Get(self.positions, symbol, 0) + amount),
            !.trades = Append(self.trades,
                [timestamp |-> self.timestamps[Len(self.timestamps)],
                 action |-> "buy",
                 symbol |-> symbol,
                 amount |-> amount,
                 price |-> execution_price,
                 cost |-> total_cost])]

\* ExecuteBuy that fills as much of an unaffordable order as the capital buys.
ExecuteBuy_PartialFill(self, symbol, amount, price) ==
    LET execution_price == price * (SlipDen + self.slippage)
        unit_cost == execution_price * (CommDen + self.commission)
        affordable == IF execution_price * amount * (CommDen + self.commission)
                           <= self.capital
                      THEN amount
                      ELSE self.capital \div unit_cost
        total_cost == affordable * unit_cost
    IN  [self EXCEPT
            !.capital = self.capital - total_cost,
            !.positions = Put(self.positions, symbol,
                              Get(self.positions, symbol, 0) + affordable),
            !.trades = Append(self.trades,
                [timestamp |-> self.timestamps[Len(self.timestamps)],
                 action |-> "buy",
                 symbol |-> symbol,
                 amount |-> affordable,
                 price |-> execution_price,
                 cost |-> total_cost])]

\* ExecuteBuy that logs the cost before commission while it charges the
\* capital the cost with commission.
ExecuteBuy_LogsGrossCost(self, symbol, amount, price) ==
    LET execution_price == price * (SlipDen + self.slippage)
        cost == execution_price * amount
        commission_cost == cost * self.commission
        total_cost == cost * CommDen + commission_cost
    IN  IF total_cost <= self.capital
        THEN [self EXCEPT
                !.capital = self.capital - total_cost,
                !.positions = Put(self.positions, symbol,
                                  Get(self.positions, symbol, 0) + amount),
                !.trades = Append(self.trades,
                    [timestamp |-> self.timestamps[Len(self.timestamps)],
                     action |-> "buy",
                     symbol |-> symbol,
                     amount |-> amount,
                     price |-> execution_price,
                     cost |-> cost * CommDen])]
        ELSE self

\* Backtester._execute_backtest_signal, the "buy" branch.
ExecuteBuy(self, symbol, amount, price) ==
    LET execution_price == price * (SlipDen + self.slippage)
        cost == execution_price * amount
        commission_cost == cost * self.commission
        total_cost == cost * CommDen + commission_cost
    IN  IF total_cost <= self.capital
        THEN [self EXCEPT
                !.capital = self.capital - total_cost,
                !.positions = Put(self.positions, symbol,
                                  Get(self.positions, symbol, 0) + amount),
                !.trades = Append(self.trades,
                    [timestamp |-> self.timestamps[Len(self.timestamps)],
                     action |-> "buy",
                     symbol |-> symbol,
                     amount |-> amount,
                     price |-> execution_price,
                     cost |-> total_cost])]
        ELSE self

\* ExecuteSell that leaves an entry of quantity zero in positions.
ExecuteSell_KeepsZeroEntry(self, symbol, amount, price) ==
    LET execution_price == price * (SlipDen - self.slippage)
    IN  IF symbol \in DOMAIN self.positions /\ self.positions[symbol] >= amount
        THEN LET proceeds == execution_price * amount
                 commission_cost == proceeds * self.commission
                 net_proceeds == proceeds * CommDen - commission_cost
                 held == self.positions[symbol] - amount
             IN  [self EXCEPT
                    !.capital = self.capital + net_proceeds,
                    !.positions = Put(self.positions, symbol, held),
                    !.trades = Append(self.trades,
                        [timestamp |-> self.timestamps[Len(self.timestamps)],
                         action |-> "sell",
                         symbol |-> symbol,
                         amount |-> amount,
                         price |-> execution_price,
                         proceeds |-> net_proceeds])]
        ELSE self

\* ExecuteSell that tests only that the symbol is held, not how much.
ExecuteSell_NoQuantityCheck(self, symbol, amount, price) ==
    LET execution_price == price * (SlipDen - self.slippage)
    IN  IF symbol \in DOMAIN self.positions
        THEN LET proceeds == execution_price * amount
                 commission_cost == proceeds * self.commission
                 net_proceeds == proceeds * CommDen - commission_cost
                 held == self.positions[symbol] - amount
             IN  [self EXCEPT
                    !.capital = self.capital + net_proceeds,
                    !.positions = IF held = 0
                                  THEN Del(self.positions, symbol)
                                  ELSE Put(self.positions, symbol, held),
                    !.trades = Append(self.trades,
                        [timestamp |-> self.timestamps[Len(self.timestamps)],
                         action |-> "sell",
                         symbol |-> symbol,
                         amount |-> amount,
                         price |-> execution_price,
                         proceeds |-> net_proceeds])]
        ELSE self

\* ExecuteSell that assigns the trade log instead of appending to it.
ExecuteSell_OverwritesLog(self, symbol, amount, price) ==
    LET execution_price == price * (SlipDen - self.slippage)
    IN  IF symbol \in DOMAIN self.positions /\ self.positions[symbol] >= amount
        THEN LET proceeds == execution_price * amount
                 commission_cost == proceeds * self.commission
                 net_proceeds == proceeds * CommDen - commission_cost
                 held == self.positions[symbol] - amount
             IN  [self EXCEPT
                    !.capital = self.capital + net_proceeds,
                    !.positions = IF held = 0
                                  THEN Del(self.positions, symbol)
                                  ELSE Put(self.positions, symbol, held),
                    !.trades =
                        << [timestamp |-> self.timestamps[Len(self.timestamps)],
                            action |-> "sell",
                            symbol |-> symbol,
                            amount |-> amount,
                            price |-> execution_price,
                            proceeds |-> net_proceeds] >>]
        ELSE self

\* ExecuteSell that adds the slippage to the price instead of taking it off.
ExecuteSell_SlippageAdded(self, symbol, amount, price) ==
    LET execution_price == price * (SlipDen + self.slippage)
    IN  IF symbol \in DOMAIN self.positions /\ self.positions[symbol] >= amount
        THEN LET proceeds == execution_price * amount
                 commission_cost == proceeds * self.commission
                 net_proceeds == proceeds * CommDen - commission_cost
                 held == self.positions[symbol] - amount
             IN  [self EXCEPT
                    !.capital = self.capital + net_proceeds,
                    !.positions = IF held = 0
                                  THEN Del(self.positions, symbol)
                                  ELSE Put(self.positions, symbol, held),
                    !.trades = Append(self.trades,
                        [timestamp |-> self.timestamps[Len(self.timestamps)],
                         action |-> "sell",
                         symbol |-> symbol,
                         amount |-> amount,
                         price |-> execution_price,
                         proceeds |-> net_proceeds])]
        ELSE self

\* Backtester._execute_backtest_signal, the "sell" branch.
ExecuteSell(self, symbol, amount, price) ==
    LET execution_price == price * (SlipDen - self.slippage)
    IN  IF symbol \in DOMAIN self.positions /\ self.positions[symbol] >= amount
        THEN LET proceeds == execution_price * amount
                 commission_cost == proceeds * self.commission
                 net_proceeds == proceeds * CommDen - commission_cost
                 held == self.positions[symbol] - amount
             IN  [self EXCEPT
                    !.capital = self.capital + net_proceeds,
                    !.positions = IF held = 0
                                  THEN Del(self.positions, symbol)
                                  ELSE Put(self.positions, symbol, held),
                    !.trades = Append(self.trades,
                        [timestamp |-> self.timestamps[Len(self.timestamps)],
                         action |-> "sell",
                         symbol |-> symbol,
                         amount |-> amount,
                         price |-> execution_price,
                         proceeds |-> net_proceeds])]
        ELSE self

\* Backtester._execute_backtest_signal
_execute_backtest_signal(self, signal, market_data) ==
    LET amount == Get(signal, "amount", 0)
        is(action) == "action" \in DOMAIN signal /\ signal.action = action
    IN  IF ~("symbol" \in DOMAIN signal /\ signal.symbol \in DOMAIN market_data)
        THEN self
        ELSE LET symbol == signal.symbol
                 price == market_data[symbol].ticker.last
             IN  IF is("buy") THEN ExecuteBuy(self, symbol, amount, price)
                 ELSE IF is("sell") THEN ExecuteSell(self, symbol, amount, price)
                 ELSE self

\* _calculate_portfolio_value that adds each held symbol's price, not the
\* price times the quantity held.
_calculate_portfolio_value_PriceOnly(self, market_data) ==
    LET priced == DOMAIN self.positions \cap DOMAIN market_data
        value == [s \in priced |-> market_data[s].ticker.last * MoneyScale]
    IN  self.capital + SumOver(value, priced)

\* Backtester._calculate_portfolio_value
_calculate_portfolio_value(self, market_data) ==
    LET priced == DOMAIN self.positions \cap DOMAIN market_data
        value == [s \in priced |->
                    market_data[s].ticker.last * self.positions[s]
                        * SlipDen * CommDen]
    IN  self.capital + SumOver(value, priced)

\* The return taken relative to the final value instead of the initial
\* capital.
TotalReturn_OverFinal(final_value, initial_capital) ==
    Divide(final_value - initial_capital, final_value)

\* Backtester._calculate_metrics, line 238: the return.
TotalReturn(final_value, initial_capital) ==
    Divide(final_value - initial_capital, initial_capital)

\* The drawdown measured from the highest value of the whole curve instead
\* of the highest value so far.
MaxDrawdown_FromPeak(equity_array) ==
    LET peak == MaximumAccumulate(equity_array)[Len(equity_array)]
        drawdown == [i \in 1..Len(equity_array) |->
                        Divide(equity_array[i] - peak, peak)]
    IN  NpMin(drawdown)

\* Backtester._calculate_metrics, lines 245-247: the drawdown.
MaxDrawdown(equity_array) ==
    LET cumulative_max == MaximumAccumulate(equity_array)
        drawdown == [i \in 1..Len(equity_array) |->
                        Divide(equity_array[i] - cumulative_max[i],
                               cumulative_max[i])]
    IN  NpMin(drawdown)

\* Backtester._calculate_metrics, lines 241-242: the number of periods the
\* mean and the variance of the returns are scaled to.
PeriodsPerYear == 252

\* Backtester._calculate_metrics, line 234: np.diff(equity_array) /
\* equity_array[:-1], one return per step of the curve.
Returns(equity_array) ==
    [i \in 1..(Len(equity_array) - 1) |->
        Divide(equity_array[i + 1] - equity_array[i], equity_array[i])]

\* np.std: nan as soon as one value is nan or infinite, 0 when the values
\* are all equal, and a positive number otherwise, kept as written (a
\* square root).
NpStd(a) ==
    IF \E i \in 1..Len(a) : ~IsFinite(a[i]) THEN NaN
    ELSE IF \A i \in 1..Len(a) : a[i] = a[1] THEN Zero
    ELSE [std_of |-> a]

\* x > 0 on a float: False for nan and for 0.
Positive(x) ==
    \/ "std_of" \in DOMAIN x
    \/ "sqrt_times" \in DOMAIN x
    \/ x = PosInf
    \/ IsFinite(x) /\ x.num > 0

\* x * np.sqrt(y) for y > 0: nan stays nan, 0 stays 0, a positive number
\* becomes another one, kept as written.
TimesSqrt(x, y) ==
    IF x = NaN \/ x = Zero THEN x ELSE [sqrt_times |-> y, of |-> x]

\* Backtester._calculate_metrics, line 241: the volatility.
Volatility(returns) ==
    IF Len(returns) > 0 THEN TimesSqrt(NpStd(returns), PeriodsPerYear)
    ELSE Zero

\* Backtester._calculate_metrics, line 242: the Sharpe ratio, kept as
\* written when the volatility is positive.
SharpeRatio(returns, volatility) ==
    IF Positive(volatility)
    THEN [mean_of |-> returns, times |-> PeriodsPerYear, over |-> volatility]
    ELSE Zero

\* Backtester._calculate_metrics, lines 226-262.
_calculate_metrics(self) ==
    LET equity_array == self.equity_curve
        returns == Returns(equity_array)
        final_value == equity_array[Len(equity_array)]
        total_return == TotalReturn(final_value, self.initial_capital)
        volatility == Volatility(returns)
        sharpe_ratio == SharpeRatio(returns, volatility)
        max_drawdown == MaxDrawdown(equity_array)
    IN
    [initial_capital |-> self.initial_capital,
     final_value |-> final_value,
     total_return |-> total_return,
     total_return_pct |-> Times100(total_return),
     num_trades |-> Len(self.trades),
     volatility |-> volatility,
     sharpe_ratio |-> sharpe_ratio,
     max_drawdown |-> max_drawdown,
     max_drawdown_pct |-> Times100(max_drawdown),
     equity_curve |-> self.equity_curve,
     timestamps |-> self.timestamps,
     trades |-> self.trades]

\* Backtester._calculate_metrics, lines 259-261: the attributes whose list
\* object the returned dict refers to (no copy is made).
_calculate_metrics_refers == {"equity_curve", "timestamps", "trades"}

\* run without the reset it begins with.
RunPrologue_NoReset(self) == self

\* Backtester.run, line 67: a run begins by resetting the instance.
RunPrologue(self) == reset(self)

\* df[df["timestamp"] >= start_date]
RECURSIVE From(_, _)
From(frame, start_date) ==
    IF frame = <<>> THEN <<>>
    ELSE IF Head(frame).timestamp >= start_date
         THEN <<Head(frame)>> \o From(Tail(frame), start_date)
         ELSE From(Tail(frame), start_date)

\* The rows of frame, last first.
Reverse(frame) == [i \in 1..Len(frame) |-> frame[Len(frame) + 1 - i]]

\* PrimaryFrame that hands the loop the newest bar first.
PrimaryFrame_NewestFirst(hd, start_date, end_date) ==
    LET primary == hd[1].df
        started == IF start_date # NoDate THEN From(primary, start_date) ELSE primary
    IN  Reverse(IF end_date # NoDate THEN UpTo(started, end_date) ELSE started)

\* Backtester.run, lines 71-78: the first symbol's dataframe drives the
\* clock, filtered by the date range when one is given.
PrimaryFrame(hd, start_date, end_date) ==
    LET primary == hd[1].df
        started == IF start_date # NoDate THEN From(primary, start_date) ELSE primary
    IN  IF end_date # NoDate THEN UpTo(started, end_date) ELSE started

\* RunIteration with the equity append moved under `if signal:`.
RunIteration_EquityOnlyOnSignal(self, historical_data, row, sig) ==
    LET stamped == [self EXCEPT !.timestamps = Append(self.timestamps, row.timestamp)]
        market_snapshot == _prepare_market_snapshot(historical_data, row.timestamp)
    IN  IF sig # None
        THEN LET filled == _execute_backtest_signal(stamped, sig, market_snapshot)
             IN  [filled EXCEPT !.equity_curve =
                    Append(filled.equity_curve,
                           _calculate_portfolio_value(filled, market_snapshot))]
        ELSE stamped

\* One iteration of the loop of Backtester.run on `row`, the strategy having
\* returned `sig` for the snapshot.
RunIteration(self, historical_data, row, sig) ==
    LET stamped == [self EXCEPT !.timestamps = Append(self.timestamps, row.timestamp)]
        market_snapshot == _prepare_market_snapshot(historical_data, row.timestamp)
        filled == IF sig # None
                  THEN _execute_backtest_signal(stamped, sig, market_snapshot)
                  ELSE stamped
    IN  [filled EXCEPT !.equity_curve =
            Append(filled.equity_curve,
                   _calculate_portfolio_value(filled, market_snapshot))]

\* The loop body of Backtester.run up to the strategy call (lines 82-91):
\* the row's timestamp is recorded.
RunIterationBegin(self, row) ==
    [self EXCEPT !.timestamps = Append(self.timestamps, row.timestamp)]

\* The loop body of Backtester.run from the strategy's answer on (lines
\* 91-99): the signal, if any, is executed and the equity value appended.
RunIterationEnd(self, snapshot, sig) ==
    LET filled == IF sig # None
                  THEN _execute_backtest_signal(self, sig, snapshot)
                  ELSE self
    IN  [filled EXCEPT !.equity_curve =
            Append(filled.equity_curve,
                   _calculate_portfolio_value(filled, snapshot))]

-----------------------------------------------------------------------------
(* quantops.strategies.momentum.MomentumStrategy.  The exponential         *)
(* averages of calculate_macd are not representable in bounded integers:   *)
(* the MACD line and the signal line of an instrument are given, one pair  *)
(* per bar (`lines`), and calculate_macd reads them off.  The RSI is       *)
(* computed.  A dataframe is the sequence of its rows, a row the record of *)
(* its columns.                                                            *)

\* MomentumStrategy.generate_signal, line 52: the least number of bars.
MinBars == 50

\* BaseStrategy.__init__ and MomentumStrategy.__init__: the attributes, from
\* the config dict and the defaults (position_size 0.1 is the amount 1).
MomentumStrategy(config) ==
    [symbols |-> Get(config, "symbols", <<>>),
     rsi_period |-> Get(config, "rsi_period", 14),
     rsi_oversold |-> Get(config, "rsi_oversold", 30),
     rsi_overbought |-> Get(config, "rsi_overbought", 70),
     position_size |-> Get(config, "position_size", 1)]

\* df["close"]
Column(df, name) == [i \in 1..Len(df) |-> df[i][name]]

\* calculate_macd(df["close"]): the given lines, bar by bar.
calculate_macd(close, lines) ==
    [macd |-> [i \in 1..Len(close) |-> lines[i].macd],
     signal |-> [i \in 1..Len(close) |-> lines[i].signal],
     histogram |-> [i \in 1..Len(close) |-> lines[i].macd - lines[i].signal]]

\* df with the four indicator columns set.
WithIndicators(df, rsi_col, lines) ==
    [i \in 1..Len(df) |->
        [timestamp |-> df[i].timestamp, open |-> df[i].open,
         high |-> df[i].high, low |-> df[i].low, close |-> df[i].close,
         volume |-> df[i].volume,
         rsi |-> rsi_col[i], macd |-> lines.macd[i],
         signal |-> lines.signal[i], histogram |-> lines.histogram[i]]]

\* df.dropna(): the rows without a nan (the bars hold numbers, the MACD
\* columns too, so the RSI alone can be nan).
RECURSIVE DropNa(_)
DropNa(df) ==
    IF df = <<>> THEN <<>>
    ELSE IF Head(df).rsi = NaN THEN DropNa(Tail(df))
         ELSE <<Head(df)>> \o DropNa(Tail(df))

\* _add_indicators that, where the close column is missing, fills the RSI
\* with 0 and goes on instead of giving up.
_add_indicators_ZeroFill(self, df, lines) ==
    IF \E i \in 1..Len(df) : "close" \notin DOMAIN df[i]
    THEN [failed |-> FALSE,
          df |-> [i \in 1..Len(df) |->
                    [timestamp |-> df[i].timestamp, rsi |-> Zero,
                     macd |-> lines[i].macd, signal |-> lines[i].signal,
                     histogram |-> lines[i].macd - lines[i].signal]],
          argument |-> df]
    ELSE LET close == Column(df, "close")
             added == WithIndicators(df, calculate_rsi(close, self.rsi_period),
                                     calculate_macd(close, lines))
         IN  [failed |-> FALSE, df |-> DropNa(added), argument |-> df]

\* _add_indicators without `df = df.copy()`: the columns are set on the
\* caller's dataframe.
_add_indicators_InPlace(self, df, lines) ==
    IF \E i \in 1..Len(df) : "close" \notin DOMAIN df[i]
    THEN [failed |-> TRUE, df |-> <<>>, argument |-> df]
    ELSE LET close == Column(df, "close")
             added == WithIndicators(df, calculate_rsi(close, self.rsi_period),
                                     calculate_macd(close, lines))
         IN  [failed |-> FALSE, df |-> DropNa(added), argument |-> added]

\* MomentumStrategy._add_indicators, lines 98-126.  `failed` is the None it
\* returns after catching an exception (a dataframe without a close column
\* makes df["close"] raise KeyError); `argument` is the caller's dataframe
\* after the call: the columns are set on a copy (line 109), and dropna
\* returns a new dataframe.
_add_indicators(self, df, lines) ==
    IF \E i \in 1..Len(df) : "close" \notin DOMAIN df[i]
    THEN [failed |-> TRUE, df |-> <<>>, argument |-> df]
    ELSE LET close == Column(df, "close")
             added == WithIndicators(df, calculate_rsi(close, self.rsi_period),
                                     calculate_macd(close, lines))
         IN  [failed |-> FALSE, df |-> DropNa(added), argument |-> df]

\* A strategy that takes a window of any length.
TooShort_Never(ohlcv) == FALSE

\* The test of line 52 on the length of the window.
TooShort(ohlcv) == Len(ohlcv) < MinBars

\* The test of lines 73-75.
BuyCondition(self, latest, previous) ==
    /\ FloatLess(latest.rsi, Fraction(self.rsi_oversold, 1))
    /\ latest.macd > latest.signal
    /\ previous.macd <= previous.signal

\* The test of lines 85-87.
SellCondition(self, latest, previous) ==
    /\ FloatLess(Fraction(self.rsi_overbought, 1), latest.rsi)
    /\ latest.macd < latest.signal
    /\ previous.macd >= previous.signal

\* The loop of generate_signal from the k-th configured symbol on.  The
\* answer is the signal or None, the caller's market_data after the call,
\* and the symbols whose indicators were computed, in order.  A signal dict
\* also has a `reason`, a text for the log, which nothing reads.
RECURSIVE generate_signal_from(_, _, _, _)
generate_signal_from(self, market_data, lines, k) ==
    IF k > Len(self.symbols)
    THEN [signal |-> None, market_data |-> market_data, evaluated |-> <<>>]
    ELSE
    LET symbol == self.symbols[k]
        next == generate_signal_from(self, market_data, lines, k + 1)
    IN
    IF symbol \notin DOMAIN market_data THEN next
    ELSE IF "ohlcv" \notin DOMAIN market_data[symbol] THEN next
    ELSE IF TooShort(market_data[symbol].ohlcv) THEN next
    ELSE
    LET added == _add_indicators(self, market_data[symbol].ohlcv, lines[symbol])
        after == [market_data EXCEPT ![symbol].ohlcv = added.argument]
        later == generate_signal_from(self, after, lines, k + 1)
        skip == [later EXCEPT !.evaluated = <<symbol>> \o later.evaluated]
        df == added.df
    IN
    IF added.failed \/ Len(df) < 2 THEN skip
    ELSE
    LET latest == df[Len(df)]
        previous == df[Len(df) - 1]
    IN  IF BuyCondition(self, latest, previous)
        THEN [signal |-> [action |-> "buy", symbol |-> symbol,
                          amount |-> self.position_size],
              market_data |-> after, evaluated |-> <<symbol>>]
        ELSE IF SellCondition(self, latest, previous)
        THEN [signal |-> [action |-> "sell", symbol |-> symbol,
                          amount |-> self.position_size],
              market_data |-> after, evaluated |-> <<symbol>>]
        ELSE skip

\* generate_signal that goes through the configured symbols last first.
generate_signal_LastFirst(self, market_data, lines) ==
    generate_signal_from([self EXCEPT !.symbols = Reverse(self.symbols)],
                         market_data, lines, 1)

\* MomentumStrategy.generate_signal, lines 37-96.
generate_signal(self, market_data, lines) ==
    generate_signal_from(self, market_data, lines, 1)

-----------------------------------------------------------------------------
(* TradingEngine (quantops.core.engine), the ExchangeManager calls it      *)
(* awaits, and the start/stop handlers of the API (quantops.api.app).      *)

\* Calls of TradingEngine.start the model follows.
MaxStarts == 2

\* Configurations an engine is constructed with: whether an error in a
\* trading cycle stops the engine, and the exchanges to connect to.
EngineConfigs ==
    [stop_on_error : BOOLEAN, exchanges : {{}, {"binance"}}]

\* ExchangeManager.__init__
ExchangeManager(config) == [config |-> config, exchanges |-> {}]

\* TradingEngine.__init__, lines 40-46: the attributes start and stop use.
TradingEngine(config) ==
    [config |-> config,
     exchange_manager |-> ExchangeManager(config.exchanges),
     running |-> FALSE]

\* ExchangeManager.connect_all: every configured exchange is connected, in
\* order; `fails` is the set of those whose connect raises.  The first
\* failure is re-raised (line 61) and ends the loop.
connect_all(manager, fails) ==
    IF manager.config \cap fails # {}
    THEN [raised |-> TRUE, manager |-> manager]
    ELSE [raised |-> FALSE,
          manager |-> [manager EXCEPT !.exchanges = @ \cup manager.config]]

\* ExchangeManager.disconnect_all: every exchange is closed, errors logged,
\* and the dict cleared (line 72).
disconnect_all(manager) == [manager EXCEPT !.exchanges = {}]

\* TradingEngine.start, line 62: the flag is raised before anything is
\* awaited.
start_Enter(self) == [self EXCEPT !.running = TRUE]

\* TradingEngine.stop, line 79: the flag is lowered before disconnect_all is
\* awaited.
stop_Enter(self) == [self EXCEPT !.running = FALSE]

\* TradingEngine.stop, line 80, once disconnect_all has returned.
stop_Exit(self) ==
    [self EXCEPT !.exchange_manager = disconnect_all(self.exchange_manager)]

\* A call of TradingEngine.start: where it is, and whether stop() has
\* lowered the flag since it began.
\*   "scheduled"   handed to BackgroundTasks, not yet begun
\*   "connecting"  suspended in `await self.exchange_manager.connect_all()`
\*                 (line 65)
\*   "cycle"       suspended inside the try block (lines 70-71): in the
\*                 trading cycle or in the sleep after it
\*   "stopping"    suspended in the except block, in stop's
\*                 `await self.exchange_manager.disconnect_all()`
\*   "returned"    the loop has ended and start has returned
\*   "raised"      connect_all raised and start has ended with its exception
\* `resumed` records that the call went into the try block again after
\* stop() had lowered the flag on it.
StartCall(pc) == [pc |-> pc, stopped |-> FALSE, resumed |-> FALSE]

InProgress == {"connecting", "cycle", "stopping"}

\* TradingEngine.start, line 68: the loop test a call makes when it resumes;
\* it goes into the try block or returns.
LoopTest(self, call) ==
    IF self.running
    THEN [call EXCEPT !.pc = "cycle", !.resumed = call.stopped]
    ELSE [call EXCEPT !.pc = "returned"]

\* What a handler of the API answers: the status of the response, its
\* detail or message, and the coroutine it hands to BackgroundTasks.
Response(status, detail, task) ==
    [status |-> status, detail |-> detail, background |-> task]

\* start_engine that schedules engine.start whether or not the engine is
\* running.
start_engine_Unguarded(engine) ==
    IF engine = None
    THEN Response(503, "Engine not initialized", "none")
    ELSE Response(200, "Engine started", "engine.start")

\* start_engine (app.py, lines 100-111)
start_engine(engine) ==
    IF engine = None
    THEN Response(503, "Engine not initialized", "none")
    ELSE IF engine.running
         THEN Response(400, "Engine already running", "none")
         ELSE Response(200, "Engine started", "engine.start")

\* stop_engine (app.py, lines 114-125), up to `await engine.stop()`: the
\* rejection, or None when the request goes on to stop the engine.
stop_engine_Guard(engine) ==
    IF engine = None
    THEN Response(503, "Engine not initialized", "none")
    ELSE IF ~engine.running
         THEN Response(400, "Engine not running", "none")
         ELSE None

\* stop_engine, line 125: the answer once engine.stop() has returned.
stop_engine_Return == Response(200, "Engine stopped", "none")

-----------------------------------------------------------------------------
(* State.                                                                  *)

VARIABLES
    bt,                 \* the Backtester instance (its attributes)
    pc,                 \* "idle": no call in progress; "entered": run has
                        \* reset the instance; "running": in or past its loop;
                        \* "awaiting": in the loop, at `await generate_signal`
    historical_data,    \* run's argument
    start_date,         \* run's argument (NoDate for None)
    end_date,           \* run's argument (NoDate for None)
    df,                 \* run's local: the primary instrument's dataframe
    idx,                \* run's local: rows of df processed so far
    signal,             \* run's local: what generate_signal returned last
    market_snapshot,    \* run's local: the snapshot of the last iteration
    results,            \* what run returned, None while a run is in progress
    twin,               \* a second, freshly constructed Backtester given the
                        \* same run call (None between runs)
    twin_results,       \* what the twin's run returned
    raised,             \* the exception the last run call raised, or "none"
    held,               \* a result of an earlier run that the caller still
                        \* holds (None when it holds none)
    shared,             \* the list attributes of the instance whose list
                        \* object is the one the held result refers to
    calls,              \* generate_signal invocations of the current or
                        \* last run
    strategy,           \* the MomentumStrategy instance run is given (None
                        \* when the strategy is any other)
    macd_lines,         \* what calculate_macd yields on each instrument's
                        \* closes: per symbol, one [macd, signal] per bar
    data,               \* the series an indicator function is applied to
    period,             \* its period argument
    sma,                \* what calculate_sma(data, period) returned
    rsi,                \* what calculate_rsi(data, period) returned
    normalized,         \* what normalize_data(data) returned
    computed,           \* the indicator functions that have returned
    evaluated,          \* the symbols whose indicators the last call of
                        \* generate_signal computed, in order
    engine,             \* app.py's global `engine`: the TradingEngine, or
                        \* None when startup failed to construct one
    starts,             \* the calls of engine.start, in the order they were
                        \* handed to BackgroundTasks
    stops,              \* stop_engine requests suspended inside engine.stop()
    response,           \* the response the API sent last
    handler             \* the coroutine that took the last step

\* The variables of the strategy and of the indicator library: no step of
\* the Backtester writes them.
live == <<engine, starts, stops, response, handler>>

outside == <<strategy, macd_lines, data, period, sma, rsi, normalized, computed,
             evaluated, live>>

vars == <<bt, pc, historical_data, start_date, end_date, df, idx, signal,
          market_snapshot, results, twin, twin_results, raised, held, shared,
          calls, outside>>

\* No API process: no engine, no request.
InitLive ==
    /\ engine = None
    /\ starts = <<>>
    /\ stops = 0
    /\ response = None
    /\ handler = "none"

\* No MomentumStrategy instance, no indicator call and no API process.
InitOutside ==
    /\ InitLive
    /\ strategy = None
    /\ macd_lines = EmptyDict
    /\ data = <<>>
    /\ period = 1
    /\ sma = <<>>
    /\ rsi = <<>>
    /\ normalized = <<>>
    /\ computed = {}
    /\ evaluated = <<>>

\* The held result as the caller reads it once the instance is in state self:
\* a list it shares with the instance has the instance's contents.
Propagate(res, sh, self) ==
    IF res = None THEN res
    ELSE [res EXCEPT
            !.equity_curve = IF "equity_curve" \in sh THEN self.equity_curve ELSE @,
            !.timestamps = IF "timestamps" \in sh THEN self.timestamps ELSE @,
            !.trades = IF "trades" \in sh THEN self.trades ELSE @]

Init ==
    /\ \E ic \in InitialCapitals, c \in Commissions, s \in Slippages :
          bt = __init__(ic, c, s)
    /\ pc = "idle"
    /\ historical_data = <<>>
    /\ df = <<>>
    /\ idx = 0
    /\ signal = None
    /\ market_snapshot = EmptyDict
    /\ results = None
    /\ twin = None
    /\ twin_results = None
    /\ raised = "none"
    /\ held = None
    /\ shared = {}
    /\ start_date = NoDate
    /\ end_date = NoDate
    /\ calls = 0
    /\ InitOutside

\* A call of reset() between runs.
Reset ==
    /\ pc = "idle"
    /\ bt' = reset(bt)
    /\ shared' = shared \ reset_rebinds
    /\ held' = Propagate(held, shared', bt')
    /\ UNCHANGED outside
    /\ UNCHANGED <<pc, historical_data, start_date, end_date, df, idx, signal,
                   market_snapshot, results, twin, twin_results, raised, calls>>

\* run(strategy, historical_data, start_date, end_date) is called and resets
\* the instance (line 67).  The twin is constructed with bt's arguments and
\* given the same call.
RunEnter ==
    /\ pc = "idle"
    /\ bt' = RunPrologue(bt)
    /\ shared' = shared \ reset_rebinds
    /\ held' = Propagate(held, shared', bt')
    /\ twin' = RunPrologue(__init__(bt.initial_capital, bt.commission, bt.slippage))
    /\ pc' = "entered"
    /\ results' = None
    /\ twin_results' = None
    /\ raised' = "none"
    /\ calls' = 0
    /\ UNCHANGED outside
    /\ UNCHANGED <<historical_data, start_date, end_date, df, idx, signal,
                   market_snapshot>>

\* run reads its arguments (lines 71-78): the primary frame, filtered by the
\* date range, is what the loop will iterate.
RunSelectFrom(datasets, start_dates, end_dates) ==
    /\ pc = "entered"
    /\ \E hd \in datasets, sd \in start_dates, ed \in end_dates :
          /\ hd # <<>>
          /\ historical_data' = hd
          /\ start_date' = sd
          /\ end_date' = ed
          /\ df' = PrimaryFrame(hd, sd, ed)
    /\ pc' = "running"
    /\ idx' = 0
    /\ signal' = None
    /\ market_snapshot' = EmptyDict
    /\ UNCHANGED outside
    /\ UNCHANGED <<bt, twin, results, twin_results, raised, held, shared, calls>>

RunSelect == RunSelectFrom(HistoricalData, StartDates, EndDates)

\* run is given a dict with no key: `list(historical_data.keys())[0]` (line
\* 71) raises IndexError, which nothing in run catches.  The call ends without
\* a result, the instance as the reset of line 67 left it.
RunIndexError ==
    /\ pc = "entered"
    /\ \E hd \in HistoricalData : hd = <<>>
    /\ raised' = "IndexError"
    /\ pc' = "idle"
    /\ twin' = None
    /\ UNCHANGED outside
    /\ UNCHANGED <<bt, historical_data, start_date, end_date, df, idx, signal,
                   market_snapshot, results, twin_results, held, shared, calls>>

\* One iteration of run's loop, generate_signal returning sig for the
\* snapshot.  The snapshot is built from historical_data and the row alone,
\* so a strategy that is a function of the snapshot returns sig to the twin too.
\* The iteration appends to the instance's lists in place.
Tick(sig) ==
    /\ pc = "running"
    /\ idx < Len(df)
    /\ bt' = RunIteration(bt, historical_data, df[idx + 1], sig)
    /\ twin' = RunIteration(twin, historical_data, df[idx + 1], sig)
    /\ idx' = idx + 1
    /\ signal' = sig
    /\ market_snapshot' =
          _prepare_market_snapshot(historical_data, df[idx + 1].timestamp)
    /\ held' = Propagate(held, shared, bt')
    /\ calls' = calls + 1
    /\ UNCHANGED outside
    /\ UNCHANGED <<pc, historical_data, start_date, end_date, df, results,
                   twin_results, raised, shared>>

\* The first half of an iteration, for the replay seen at the grain of the
\* strategy call: the row's timestamp is recorded, the snapshot built and
\* generate_signal invoked; the coroutine is suspended until it answers.
TickBegin ==
    /\ pc = "running"
    /\ idx < Len(df)
    /\ bt' = RunIterationBegin(bt, df[idx + 1])
    /\ twin' = RunIterationBegin(twin, df[idx + 1])
    /\ market_snapshot' =
          _prepare_market_snapshot(historical_data, df[idx + 1].timestamp)
    /\ calls' = calls + 1
    /\ pc' = "awaiting"
    /\ held' = Propagate(held, shared, bt')
    /\ UNCHANGED outside
    /\ UNCHANGED <<historical_data, start_date, end_date, df, idx, signal,
                   results, twin_results, raised, shared>>

\* The second half: generate_signal has returned sig; it is executed and the
\* equity value appended, and the loop moves to the next row.
TickEnd(sig) ==
    /\ pc = "awaiting"
    /\ bt' = RunIterationEnd(bt, market_snapshot, sig)
    /\ twin' = RunIterationEnd(twin, market_snapshot, sig)
    /\ idx' = idx + 1
    /\ signal' = sig
    /\ pc' = "running"
    /\ held' = Propagate(held, shared, bt')
    /\ UNCHANGED outside
    /\ UNCHANGED <<historical_data, start_date, end_date, df, market_snapshot,
                   results, twin_results, raised, shared, calls>>

\* The loop is exhausted: the metrics are computed and run returns; run's
\* locals are gone.  The result refers to the instance's own equity_curve,
\* timestamps and trades lists (lines 259-261); `keep` says whether the caller
\* holds on to it beyond the next call of run.
ReturnFromRun(keep) ==
    /\ pc = "running"
    /\ idx = Len(df)
    /\ keep => held = None
    /\ results' = _calculate_metrics(bt)
    /\ twin_results' = _calculate_metrics(twin)
    /\ held' = IF keep THEN results' ELSE held
    /\ shared' = IF keep THEN _calculate_metrics_refers ELSE shared
    /\ pc' = "idle"
    /\ historical_data' = <<>>
    /\ start_date' = NoDate
    /\ end_date' = NoDate
    /\ df' = <<>>
    /\ idx' = 0
    /\ signal' = None
    /\ market_snapshot' = EmptyDict
    /\ twin' = None
    /\ UNCHANGED outside
    /\ UNCHANGED <<bt, raised, calls>>

RunReturn == ReturnFromRun(FALSE)

TickAny == \E sig \in AnySignals : Tick(sig)

TickValid == \E sig \in ValidSignals : Tick(sig)

Next == Reset \/ RunEnter \/ RunSelect \/ RunIndexError \/ TickAny \/ RunReturn

\* Every strategy: generate_signal may return any signal the code accepts.
Spec == Init /\ [][Next]_vars

NextPos ==
    Reset \/ RunEnter \/ RunSelect \/ RunIndexError \/ TickValid \/ RunReturn

\* Strategies that keep to the Signal data model: amount > 0.
SpecPos == Init /\ [][NextPos]_vars

\* A caller that holds on to a result while it goes on using the instance:
\* the default constructor arguments, one instrument, no date filter.
InitHeld == Init /\ bt = __init__(10 * MoneyScale, 1, 1)

HeldData == { << [symbol |-> BTC, df |-> p] >> : p \in PrimaryFrames }

HeldSignals == {None} \cup [action : {"buy", "sell"}, symbol : {BTC}, amount : {1}]

RunSelectHeld == RunSelectFrom(HeldData, {NoDate}, {NoDate})

TickHeld == \E sig \in HeldSignals : Tick(sig)

RunReturnKept == \E keep \in BOOLEAN : ReturnFromRun(keep)

NextHeld == Reset \/ RunEnter \/ RunSelectHeld \/ TickHeld \/ RunReturnKept

SpecHeld == InitHeld /\ [][NextHeld]_vars

\* The replay seen at the grain of the strategy call: an iteration is two
\* steps, before and after `await strategy.generate_signal(...)`.
TickEndAny == \E sig \in HeldSignals : TickEnd(sig)

NextSeq ==
    Reset \/ RunEnter \/ RunSelect \/ RunIndexError \/ TickBegin \/ TickEndAny
        \/ RunReturn

SpecSeq == Init /\ [][NextSeq]_vars

\* _calculate_metrics by itself, on the equity curves a run may have left in
\* the instance: positive values (90000, 95000, 100000, 110000), the first
\* being the initial capital.
CurveValues ==
    {9 * MoneyScale, 19 * (MoneyScale \div 2), 10 * MoneyScale, 11 * MoneyScale}

EquityCurves == UNION { [1..n -> CurveValues] : n \in 1..MaxCurve }

InitMetrics ==
    /\ \E curve \in EquityCurves :
          bt = [__init__(curve[1], 1, 1) EXCEPT
                    !.equity_curve = curve,
                    !.timestamps = [i \in 1..(Len(curve) - 1) |-> i]]
    /\ pc = "idle"
    /\ historical_data = <<>>
    /\ start_date = NoDate
    /\ end_date = NoDate
    /\ df = <<>>
    /\ idx = 0
    /\ signal = None
    /\ market_snapshot = EmptyDict
    /\ results = None
    /\ twin = None
    /\ twin_results = None
    /\ raised = "none"
    /\ held = None
    /\ shared = {}
    /\ calls = 0
    /\ InitOutside

CalculateMetrics ==
    /\ pc = "idle"
    /\ results = None
    /\ results' = _calculate_metrics(bt)
    /\ UNCHANGED outside
    /\ UNCHANGED <<bt, pc, historical_data, start_date, end_date, df, idx, signal,
                   market_snapshot, twin, twin_results, raised, held, shared,
                   calls>>

NextMetrics == CalculateMetrics

SpecMetrics == InitMetrics /\ [][NextMetrics]_vars

\* The indicator functions by themselves: each is applied once to a series
\* and a period, in any order; the Backtester is idle.
InitIndicators ==
    /\ bt = __init__(10 * MoneyScale, 1, 1)
    /\ pc = "idle"
    /\ historical_data = <<>>
    /\ start_date = NoDate
    /\ end_date = NoDate
    /\ df = <<>>
    /\ idx = 0
    /\ signal = None
    /\ market_snapshot = EmptyDict
    /\ results = None
    /\ twin = None
    /\ twin_results = None
    /\ raised = "none"
    /\ held = None
    /\ shared = {}
    /\ calls = 0
    /\ strategy = None
    /\ macd_lines = EmptyDict
    /\ data \in SeriesInputs
    /\ period \in Periods
    /\ sma = <<>>
    /\ rsi = <<>>
    /\ normalized = <<>>
    /\ computed = {}
    /\ evaluated = <<>>
    /\ InitLive

inside == <<bt, pc, historical_data, start_date, end_date, df, idx, signal,
            market_snapshot, results, twin, twin_results, raised, held, shared,
            calls>>

CalculateSMA ==
    /\ "calculate_sma" \notin computed
    /\ sma' = calculate_sma(data, period)
    /\ computed' = computed \cup {"calculate_sma"}
    /\ UNCHANGED <<inside, strategy, macd_lines, data, period, rsi, normalized,
                   evaluated, live>>

CalculateRSI ==
    /\ "calculate_rsi" \notin computed
    /\ rsi' = calculate_rsi(data, period)
    /\ computed' = computed \cup {"calculate_rsi"}
    /\ UNCHANGED <<inside, strategy, macd_lines, data, period, sma, normalized,
                   evaluated, live>>

NormalizeData ==
    /\ "normalize_data" \notin computed
    /\ normalized' = normalize_data(data)
    /\ computed' = computed \cup {"normalize_data"}
    /\ UNCHANGED <<inside, strategy, macd_lines, data, period, sma, rsi,
                   evaluated, live>>

NextIndicators == CalculateSMA \/ CalculateRSI \/ NormalizeData

SpecIndicators == InitIndicators /\ [][NextIndicators]_vars

-----------------------------------------------------------------------------
(* MomentumStrategy: its inputs, generate_signal by itself, and a run of    *)
(* the Backtester on it.                                                   *)

\* The row of the last price move of the frame that fell and went flat, and
\* the last row whose RSI window (14 rows) still holds that move.
LastMove == 7
LastRsiRow == LastMove + 13

\* Closes of the bar sequences, by shape.  "falling" and "rising" move during
\* the last bars, "mixed" goes up and down by turns, "flat" never moves, and
\* "fell" loses 1 at rows 6 and 7 and is flat from then on (its price is the
\* series 100, 100, 100, 100, 100, 97, 94, 94, ... on a smaller scale).
Close(shape, i) ==
    CASE shape = "falling" -> (IF i <= MinBars - 4 THEN 8 ELSE 8 - (i - (MinBars - 4)))
      [] shape = "rising" -> (IF i <= MinBars - 4 THEN 1 ELSE 1 + (i - (MinBars - 4)))
      [] shape = "mixed" -> 3 + (i % 2)
      [] shape = "flat" -> 3
      [] shape = "fell" -> (IF i < LastMove - 1 THEN 8 ELSE IF i < LastMove THEN 7 ELSE 6)

Frame(shape, n) == [i \in 1..n |-> Bar(i, Close(shape, i))]

\* A frame without the close column.
NoCloseFrame(n) ==
    [i \in 1..n |-> [timestamp |-> i, open |-> 3, high |-> 4, low |-> 2,
                     volume |-> 1]]

\* The MACD and signal lines of an instrument: equal up to row k - 1, the
\* MACD line above (dir = 1) or below (dir = -1) the signal line from row k
\* on, so that they cross at row k and nowhere else.
Cross(dir, k) ==
    [i \in 1..(MaxHistory + 1) |->
        [macd |-> IF i >= k THEN dir ELSE 0, signal |-> 0]]

\* Configurations: the defaults, and one with every parameter set (the
\* thresholds the other way round).
Orders == { <<BTC>>, <<BTC, ETH>>, <<ETH, BTC>> }
Configs ==
    { [name |-> "momentum"] }
    \cup { [symbols |-> o] : o \in Orders }
    \cup { [symbols |-> o, rsi_period |-> 14, rsi_oversold |-> 70,
            rsi_overbought |-> 30, position_size |-> 2] : o \in Orders }

\* What a snapshot may hold for a symbol when generate_signal is called by
\* itself: a ticker alone, or a ticker and a dataframe.
Ticker == [last |-> 3, bid |-> 2, ask |-> 4, volume |-> 1]
SignalFrames ==
    { Frame("falling", MinBars - 1), NoCloseFrame(MinBars) }
    \cup { Frame(shape, MinBars) :
             shape \in {"falling", "rising", "mixed", "flat", "fell"} }
SnapshotEntries ==
    { [ticker |-> Ticker] }
    \cup { [ticker |-> Ticker, ohlcv |-> f] : f \in SignalFrames }
MarketData ==
    UNION { [syms -> SnapshotEntries] : syms \in SUBSET Symbols }

SignalLines == { Cross(dir, k) : dir \in {1, -1}, k \in {LastRsiRow, MinBars} }

\* generate_signal by itself: one call on a strategy instance, a snapshot
\* (market_snapshot) and the lines of its instruments (the same lines for
\* both).
InitSignal ==
    /\ bt = __init__(10 * MoneyScale, 1, 1)
    /\ pc = "idle"
    /\ historical_data = <<>>
    /\ start_date = NoDate
    /\ end_date = NoDate
    /\ df = <<>>
    /\ idx = 0
    /\ signal = None
    /\ market_snapshot \in MarketData
    /\ results = None
    /\ twin = None
    /\ twin_results = None
    /\ raised = "none"
    /\ held = None
    /\ shared = {}
    /\ calls = 0
    /\ \E config \in Configs : strategy = MomentumStrategy(config)
    /\ \E lines \in SignalLines : macd_lines = [sym \in Symbols |-> lines]
    /\ data = <<>>
    /\ period = 1
    /\ sma = <<>>
    /\ rsi = <<>>
    /\ normalized = <<>>
    /\ computed = {}
    /\ evaluated = <<>>
    /\ InitLive

GenerateSignal ==
    /\ pc = "idle"
    /\ calls = 0
    /\ LET answer == generate_signal(strategy, market_snapshot, macd_lines)
       IN  /\ signal' = answer.signal
           /\ market_snapshot' = answer.market_data
           /\ evaluated' = answer.evaluated
    /\ calls' = 1
    /\ UNCHANGED <<bt, pc, historical_data, start_date, end_date, df, idx,
                   results, twin, twin_results, raised, held, shared, strategy,
                   macd_lines, data, period, sma, rsi, normalized, computed,
                   live>>

NextSignal == GenerateSignal

SpecSignal == InitSignal /\ [][NextSignal]_vars

\* A run of the Backtester on a MomentumStrategy: one instrument, whose
\* frame moves during its last bars; with a start_date the loop begins at a
\* late bar.
MomentumFrames ==
    { Frame(shape, n) : shape \in {"falling", "rising"},
                        n \in (MinBars - 1)..MaxHistory }
MomentumData == { << [symbol |-> BTC, df |-> f] >> : f \in MomentumFrames }
MomentumStartDates == {NoDate, MinBars}
RunLines ==
    { Cross(dir, k) : dir \in {1, -1}, k \in {MinBars - 1, MinBars, MinBars + 1} }

InitMomentum ==
    /\ bt = __init__(10 * MoneyScale, 1, 1)
    /\ pc = "idle"
    /\ historical_data = <<>>
    /\ start_date = NoDate
    /\ end_date = NoDate
    /\ df = <<>>
    /\ idx = 0
    /\ signal = None
    /\ market_snapshot = EmptyDict
    /\ results = None
    /\ twin = None
    /\ twin_results = None
    /\ raised = "none"
    /\ held = None
    /\ shared = {}
    /\ calls = 0
    /\ \E o \in {<<BTC>>, <<ETH, BTC>>} :
          strategy = MomentumStrategy([symbols |-> o])
    /\ \E lines \in RunLines : macd_lines = [sym \in Symbols |-> lines]
    /\ data = <<>>
    /\ period = 1
    /\ sma = <<>>
    /\ rsi = <<>>
    /\ normalized = <<>>
    /\ computed = {}
    /\ evaluated = <<>>
    /\ InitLive

RunSelectMomentum == RunSelectFrom(MomentumData, MomentumStartDates, {NoDate})

\* One iteration of run's loop with the MomentumStrategy: the snapshot is
\* built, generate_signal is called on it and may write to it, and the
\* signal it returns is executed on the snapshot as the call left it.
TickMomentum ==
    /\ pc = "running"
    /\ idx < Len(df)
    /\ LET row == df[idx + 1]
           snapshot == _prepare_market_snapshot(historical_data, row.timestamp)
           answer == generate_signal(strategy, snapshot, macd_lines)
       IN  /\ bt' = RunIterationEnd(RunIterationBegin(bt, row),
                                    answer.market_data, answer.signal)
           /\ twin' = RunIterationEnd(RunIterationBegin(twin, row),
                                      answer.market_data, answer.signal)
           /\ signal' = answer.signal
           /\ market_snapshot' = answer.market_data
           /\ evaluated' = answer.evaluated
    /\ idx' = idx + 1
    /\ held' = Propagate(held, shared, bt')
    /\ calls' = calls + 1
    /\ UNCHANGED <<pc, historical_data, start_date, end_date, df, results,
                   twin_results, raised, shared, strategy, macd_lines, data,
                   period, sma, rsi, normalized, computed, live>>

NextMomentum == RunEnter \/ RunSelectMomentum \/ TickMomentum \/ RunReturn

SpecMomentum == InitMomentum /\ [][NextMomentum]_vars

-----------------------------------------------------------------------------
(* The API process: start_engine and stop_engine requests and the calls of *)
(* TradingEngine.start they schedule, interleaved at the awaits.           *)

\* The variables of the strategy and of the indicator library.
library == <<strategy, macd_lines, data, period, sma, rsi, normalized, computed,
             evaluated>>

\* startup_event has run (app.py, lines 59-68): the engine is constructed,
\* or construction failed and `engine` is still None.
InitApi ==
    /\ bt = __init__(10 * MoneyScale, 1, 1)
    /\ pc = "idle"
    /\ historical_data = <<>>
    /\ start_date = NoDate
    /\ end_date = NoDate
    /\ df = <<>>
    /\ idx = 0
    /\ signal = None
    /\ market_snapshot = EmptyDict
    /\ results = None
    /\ twin = None
    /\ twin_results = None
    /\ raised = "none"
    /\ held = None
    /\ shared = {}
    /\ calls = 0
    /\ strategy = None
    /\ macd_lines = EmptyDict
    /\ data = <<>>
    /\ period = 1
    /\ sma = <<>>
    /\ rsi = <<>>
    /\ normalized = <<>>
    /\ computed = {}
    /\ evaluated = <<>>
    /\ engine \in {None} \cup { TradingEngine(config) : config \in EngineConfigs }
    /\ starts = <<>>
    /\ stops = 0
    /\ response = None
    /\ handler = "startup_event"

\* stop() lowers the flag: every call of start in progress has been told to
\* stop.
Told(calls_) ==
    [i \in 1..Len(calls_) |->
        IF calls_[i].pc \in InProgress THEN [calls_[i] EXCEPT !.stopped = TRUE]
        ELSE calls_[i]]

\* POST /engine/start: the handler runs to its return without suspending.
StartEngine ==
    /\ LET answer == start_engine(engine)
       IN  /\ response' = answer
           /\ IF answer.background = "engine.start"
              THEN /\ Len(starts) < MaxStarts
                   /\ starts' = Append(starts, StartCall("scheduled"))
              ELSE starts' = starts
    /\ handler' = "start_engine"
    /\ UNCHANGED <<engine, stops>>
    /\ UNCHANGED <<inside, library>>

\* POST /engine/stop: the request is rejected, or it calls engine.stop(),
\* which lowers the flag and awaits disconnect_all; with no exchange
\* connected nothing suspends and the request is answered in the same step.
StopEngine ==
    /\ LET rejection == stop_engine_Guard(engine)
       IN  IF rejection # None
           THEN /\ response' = rejection
                /\ UNCHANGED <<engine, starts, stops>>
           ELSE /\ starts' = Told(starts)
                /\ IF engine.exchange_manager.exchanges = {}
                   THEN /\ engine' = stop_Exit(stop_Enter(engine))
                        /\ response' = stop_engine_Return
                        /\ stops' = stops
                   ELSE /\ engine' = stop_Enter(engine)
                        /\ response' = response
                        /\ stops' = stops + 1
    /\ handler' = "stop_engine"
    /\ UNCHANGED <<inside, library>>

\* disconnect_all returns to a suspended stop_engine request: engine.stop()
\* returns and the request is answered.
StopReturn ==
    /\ stops > 0
    /\ engine' = stop_Exit(engine)
    /\ stops' = stops - 1
    /\ response' = stop_engine_Return
    /\ handler' = "stop_engine"
    /\ UNCHANGED starts
    /\ UNCHANGED <<inside, library>>

\* A scheduled call of engine.start begins (lines 62-65): it raises the flag
\* and awaits connect_all, which suspends when there is an exchange to
\* connect to; with none it goes on into the loop.
StartBegin(i) ==
    /\ starts[i].pc = "scheduled"
    /\ engine' = start_Enter(engine)
    /\ starts' = [starts EXCEPT ![i] =
                     IF engine.exchange_manager.config = {}
                     THEN LoopTest(engine', @) ELSE [@ EXCEPT !.pc = "connecting"]]
    /\ handler' = "engine.start"
    /\ UNCHANGED <<stops, response>>
    /\ UNCHANGED <<inside, library>>

\* connect_all returns or raises (line 65); when it returns the call makes
\* its first loop test, when it raises the call ends with the exception.
StartConnected(i) ==
    /\ starts[i].pc = "connecting"
    /\ \E fails \in SUBSET engine.exchange_manager.config :
          LET outcome == connect_all(engine.exchange_manager, fails)
          IN  /\ engine' = [engine EXCEPT !.exchange_manager = outcome.manager]
              /\ starts' = [starts EXCEPT ![i] =
                               IF outcome.raised THEN [@ EXCEPT !.pc = "raised"]
                               ELSE LoopTest(engine', @)]
    /\ handler' = "engine.start"
    /\ UNCHANGED <<stops, response>>
    /\ UNCHANGED <<inside, library>>

\* The try block ends (lines 69-75): the cycle and the sleep are done, or
\* the cycle raised.  An error stops the engine when stop_on_error is set;
\* stop suspends when there is an exchange to disconnect from.  Otherwise
\* the call makes its next loop test.
StartCycle(i) ==
    /\ starts[i].pc = "cycle"
    /\ \E error \in BOOLEAN :
          IF error /\ engine.config.stop_on_error
          THEN IF engine.exchange_manager.exchanges = {}
               THEN /\ engine' = stop_Exit(stop_Enter(engine))
                    /\ starts' = [Told(starts) EXCEPT ![i] = LoopTest(engine', @)]
               ELSE /\ engine' = stop_Enter(engine)
                    /\ starts' = [Told(starts) EXCEPT ![i].pc = "stopping"]
          ELSE /\ engine' = engine
               /\ starts' = [starts EXCEPT ![i] = LoopTest(engine, @)]
    /\ handler' = "engine.start"
    /\ UNCHANGED <<stops, response>>
    /\ UNCHANGED <<inside, library>>

\* disconnect_all returns to the stop() of the except block (line 75), and
\* the call makes its next loop test.
StartStopped(i) ==
    /\ starts[i].pc = "stopping"
    /\ engine' = stop_Exit(engine)
    /\ starts' = [starts EXCEPT ![i] = LoopTest(engine', @)]
    /\ handler' = "engine.start"
    /\ UNCHANGED <<stops, response>>
    /\ UNCHANGED <<inside, library>>

StartStep(i) ==
    StartBegin(i) \/ StartConnected(i) \/ StartCycle(i) \/ StartStopped(i)

StartRuns == \E i \in 1..Len(starts) : StartStep(i)

NextApi == StartEngine \/ StopEngine \/ StopReturn \/ StartRuns

\* Every interleaving of the requests and of the calls of engine.start.
SpecApi == InitApi /\ [][NextApi]_vars

\* The event loop resumes every coroutine that is ready: a call of start
\* goes on, and a suspended stop returns.
SpecApiFair ==
    /\ SpecApi
    /\ \A i \in 1..MaxStarts : WF_vars(i <= Len(starts) /\ StartStep(i))
    /\ WF_vars(StopReturn)

-----------------------------------------------------------------------------
(* Runs of the Backtester on a strategy whose generate_signal may raise.   *)

\* Backtester.get_results_dataframe, lines 271-274: one row per timestamp,
\* with the equity values after the seed; pandas raises ValueError when the
\* two columns differ in length.
get_results_dataframe(self) ==
    LET equity == Tail(self.equity_curve)
    IN  IF Len(self.timestamps) # Len(equity)
        THEN [raised |-> "ValueError"]
        ELSE [rows |-> [i \in 1..Len(equity) |->
                          [timestamp |-> self.timestamps[i],
                           equity |-> equity[i]]]]

\* An abort that undoes the fills of the ticks before it.
RunAborted_RolledBack(self, row) == reset(self)

\* Backtester.run, lines 84-91, generate_signal raising: the instance as the
\* exception leaves it.  The row's timestamp has been appended (line 84);
\* nothing is executed and no equity value is appended.
RunAborted(self, row) == RunIterationBegin(self, row)

\* An iteration of run's loop in which generate_signal raises (line 91).
\* Nothing in run catches the exception: the call ends with it, without a
\* result, and run's locals are gone.
TickRaises ==
    /\ pc = "running"
    /\ idx < Len(df)
    /\ bt' = RunAborted(bt, df[idx + 1])
    /\ raised' = "StrategyError"
    /\ pc' = "idle"
    /\ calls' = calls + 1
    /\ held' = Propagate(held, shared, bt')
    /\ historical_data' = <<>>
    /\ start_date' = NoDate
    /\ end_date' = NoDate
    /\ df' = <<>>
    /\ idx' = 0
    /\ signal' = None
    /\ market_snapshot' = EmptyDict
    /\ twin' = None
    /\ UNCHANGED outside
    /\ UNCHANGED <<results, twin_results, shared>>

NextAbort ==
    Reset \/ RunEnter \/ RunSelectHeld \/ TickHeld \/ TickRaises \/ RunReturn

\* A strategy that trades one instrument and may fail at any tick.
SpecAbort == Init /\ [][NextAbort]_vars

-----------------------------------------------------------------------------
(* Runs of the Backtester over the whole range of rates and prices its     *)
(* constructor and its data admit: rates of 0, the defaults and 300%, and  *)
(* bars that close at 0.                                                   *)

CostCommissions == {0, 1, 3 * CommDen}
CostSlippages == {0, 1, 3 * SlipDen}
CostPrices == {0, 1}

\* One instrument; a bar's low is not below 0.
CostFrames ==
    UNION { { [i \in 1..n |-> [Bar(i, cs[i]) EXCEPT !.low = cs[i]]] :
                cs \in [1..n -> CostPrices] }
            : n \in 1..MaxBars }

CostData == { << [symbol |-> BTC, df |-> f] >> : f \in CostFrames }

CostSignals ==
    {None} \cup [action : {"buy", "sell"}, symbol : {BTC}, amount : {1, 20}]

InitCosts ==
    /\ \E c \in CostCommissions, s \in CostSlippages :
          bt = __init__(10 * MoneyScale, c, s)
    /\ pc = "idle"
    /\ historical_data = <<>>
    /\ start_date = NoDate
    /\ end_date = NoDate
    /\ df = <<>>
    /\ idx = 0
    /\ signal = None
    /\ market_snapshot = EmptyDict
    /\ results = None
    /\ twin = None
    /\ twin_results = None
    /\ raised = "none"
    /\ held = None
    /\ shared = {}
    /\ calls = 0
    /\ InitOutside

RunSelectCosts == RunSelectFrom(CostData, {NoDate}, {NoDate})

TickCosts == \E sig \in CostSignals : Tick(sig)

NextCosts == RunEnter \/ RunSelectCosts \/ TickCosts \/ RunReturn

SpecCosts == InitCosts /\ [][NextCosts]_vars

-----------------------------------------------------------------------------
(* Runs of the Backtester on two instruments of which the second has bars  *)
(* at some of the primary's timestamps only.                               *)

\* The second instrument stops trading after the first bar, starts at the
\* second, or trades at both.
GapFrames == { <<Bar(1, 5)>>, <<Bar(2, 5)>>, <<Bar(1, 5), Bar(2, 1)>> }

GapData ==
    { << [symbol |-> BTC, df |-> p], [symbol |-> ETH, df |-> q] >> :
        p \in PrimaryFrames, q \in GapFrames }

RunSelectGaps == RunSelectFrom(GapData, {NoDate}, {NoDate})

NextGaps == RunEnter \/ RunSelectGaps \/ TickAny \/ RunReturn

SpecGaps == InitHeld /\ [][NextGaps]_vars

-----------------------------------------------------------------------------
(* Properties.                                                             *)

Last(q) == q[Len(q)]

\* A step of Reset: the only step from idle to idle that is not a stutter.
ResetStep == pc = "idle" /\ pc' = "idle"

\* A step that enters run, one that processes a bar, one that returns.
RunStartStep == pc = "idle" /\ pc' = "entered"
TickStep == pc = "running" /\ pc' = "running" /\ idx' = idx + 1
RunReturnStep == pc = "running" /\ pc' = "idle"

\* C1. Equity curve length.  In every state the curve starts with
\* initial_capital; inside run, after idx bars it has idx + 1 entries; a reset
\* (alone or at the start of run) leaves exactly <<initial_capital>>; and when a
\* run over the N bars of the primary frame returns, the curve, in the instance
\* and in the result, has N + 1 entries.
C1_State ==
    /\ bt.equity_curve # <<>>
    /\ bt.equity_curve[1] = bt.initial_capital
    /\ pc = "running" => Len(bt.equity_curve) = idx + 1

C1_Step ==
    /\ ResetStep \/ RunStartStep => bt'.equity_curve = <<bt'.initial_capital>>
    /\ RunReturnStep =>
          /\ Len(bt'.equity_curve) = Len(df) + 1
          /\ Len(results'.equity_curve) = Len(df) + 1
          /\ results'.equity_curve[1] = bt'.initial_capital

\* C1: the equity curve has one entry per processed bar plus the seed.
C1_EquityCurveLength == [] C1_State /\ [][C1_Step]_vars

\* A run over MaxBars bars has returned.
C1_Witness ==
    /\ pc = "idle"
    /\ results # None
    /\ Len(results.equity_curve) = MaxBars + 1
    /\ Len(results.timestamps) = MaxBars

\* C2. Cash invariant.  With initial_capital >= 0, prices >= 0, both rates in
\* [0, 1] and every signal amount > 0, capital >= 0 in every reachable state.
C2_CashNonNegative == bt.capital >= 0

\* A buy has spent the whole (positive) capital, to the last unit.
C2_Witness ==
    /\ bt.initial_capital > 0
    /\ bt.capital = 0
    /\ bt.trades # <<>>
    /\ Last(bt.trades).action = "buy"

\* C3. No short selling: in every reachable state every held quantity is
\* >= 0.
C3_NoShortPosition == \A sym \in DOMAIN bt.positions : bt.positions[sym] >= 0

\* C4. Position map invariant: whatever signals the strategy returns, every
\* symbol present in positions has quantity > 0.
C4_PositionsPositive == \A sym \in DOMAIN bt.positions : bt.positions[sym] > 0

\* C5. Determinism.  The instance, in whatever state earlier runs and resets
\* left it, and a freshly constructed twin are given the same run call (same
\* data; a strategy that is a function of the snapshot, so the same signal at
\* each bar): they return identical results, and hold identical state at
\* every bar.
C5_Determinism ==
    /\ pc \in {"entered", "running"} => bt = twin
    /\ pc = "idle" /\ results # None => results = twin_results

\* A run with a buy and a sell over MaxBars bars has returned.
C5_Witness ==
    /\ pc = "idle"
    /\ results # None
    /\ twin_results # None
    /\ Len(results.timestamps) = MaxBars
    /\ Len(results.trades) = 2
    /\ results.trades[1].action = "buy"
    /\ results.trades[2].action = "sell"
    /\ results.final_value # results.initial_capital

\* C6. reset is idempotent: from every reachable state, reset twice yields
\* the state reset once yields.
C6_ResetIdempotent == reset(reset(bt)) = reset(bt)

\* Between runs, an instance that a reset changes (it holds trades and an
\* open position).
C6_Witness ==
    /\ pc = "idle"
    /\ bt.trades # <<>>
    /\ bt.positions # EmptyDict
    /\ bt.capital # bt.initial_capital
    /\ reset(bt) # bt

\* C7. reset restores the initial state.  A freshly constructed Backtester
\* has capital = initial_capital, no positions, no trades, equity_curve =
\* <<initial_capital>> and no timestamps; every reset (alone, or the one run
\* begins with) leads to that state from any state and leaves
\* initial_capital, commission and slippage as they were.
IsInitialState(self) ==
    /\ self.capital = self.initial_capital
    /\ self.positions = EmptyDict
    /\ self.trades = <<>>
    /\ self.equity_curve = <<self.initial_capital>>
    /\ self.timestamps = <<>>

C7_Step ==
    ResetStep \/ RunStartStep =>
        /\ IsInitialState(bt')
        /\ bt'.initial_capital = bt.initial_capital
        /\ bt'.commission = bt.commission
        /\ bt'.slippage = bt.slippage
        /\ bt' = __init__(bt.initial_capital, bt.commission, bt.slippage)

\* C7: construction and every reset yield the initial state.
C7_ResetRestores == IsInitialState(bt) /\ [][C7_Step]_vars

\* A run with trades has returned and a reset has then been called.
C7_Witness ==
    /\ pc = "idle"
    /\ results # None
    /\ results.trades # <<>>
    /\ results.final_value # bt.initial_capital
    /\ IsInitialState(bt)

\* Money given in ten-thousandths of a dollar (5007.5025 is 50075025), in
\* the model's unit: one money unit is 10^4 dollars.
FromTenThousandths(n) == n \div (100000000 \div MoneyScale)

\* The step processes a bar for which the strategy returned a signal with
\* this action, on a symbol the snapshot prices.
SignalStep(action) ==
    /\ TickStep
    /\ signal' # None
    /\ signal'.action = action
    /\ signal'.symbol \in DOMAIN market_snapshot'

\* The positions of every symbol but sym are what they were.
OthersUnchanged(sym) ==
    /\ DOMAIN bt'.positions \ {sym} = DOMAIN bt.positions \ {sym}
    /\ \A o \in DOMAIN bt.positions \ {sym} : bt'.positions[o] = bt.positions[o]

\* C8. Buy fill accounting.  For a buy of amount a at reference price p:
\* executionPrice = p(1 + slippage), totalCost = executionPrice * a *
\* (1 + commission); if totalCost <= capital then capital decreases by
\* exactly totalCost, positions[symbol] increases by exactly a, and one
\* record {buy, symbol, a, executionPrice, totalCost} is appended.  Instance:
\* capital 100000, commission 0.001, slippage 0.0005, a = 0.1, p = 50000 give
\* totalCost 5007.5025, capital 94992.4975 and position 0.1.
C8_Step ==
    SignalStep("buy") =>
        LET sym == signal'.symbol
            a == signal'.amount
            p == market_snapshot'[sym].ticker.last
            executionPrice == p * (SlipDen + bt.slippage)
            totalCost == executionPrice * a * (CommDen + bt.commission)
        IN  /\ totalCost <= bt.capital =>
                /\ bt'.capital = bt.capital - totalCost
                /\ sym \in DOMAIN bt'.positions
                /\ bt'.positions[sym] = Get(bt.positions, sym, 0) + a
                /\ OthersUnchanged(sym)
                /\ bt'.trades = Append(bt.trades,
                      [timestamp |-> df[idx'].timestamp, action |-> "buy",
                       symbol |-> sym, amount |-> a,
                       price |-> executionPrice, cost |-> totalCost])
            /\ ( /\ bt.capital = 10 * MoneyScale
                 /\ bt.commission = 1
                 /\ bt.slippage = 1
                 /\ a = 1
                 /\ p = 5
                 /\ Get(bt.positions, sym, 0) = 0 ) =>
                /\ totalCost = FromTenThousandths(50075025)
                /\ Last(bt'.trades).cost = FromTenThousandths(50075025)
                /\ bt'.capital = FromTenThousandths(949924975)
                /\ bt'.positions[sym] = 1

\* C8: every step that processes a buy signal accounts for it as stated.
C8_BuyFill == [][C8_Step]_vars

\* The instance: the first fill of a run buys 0.1 at 50000 from 100000.
C8_Witness ==
    /\ pc = "running"
    /\ signal # None
    /\ signal.action = "buy"
    /\ bt.commission = 1
    /\ bt.slippage = 1
    /\ bt.initial_capital = 10 * MoneyScale
    /\ Len(bt.trades) = 1
    /\ bt.trades[1].timestamp = Last(bt.timestamps)
    /\ bt.trades[1].amount = 1
    /\ market_snapshot[signal.symbol].ticker.last = 5
    /\ bt.capital = FromTenThousandths(949924975)
    /\ bt.positions[signal.symbol] = 1

\* C9. Sell fill accounting.  For a sell of amount a of a symbol held in
\* quantity >= a at reference price p: executionPrice = p(1 - slippage),
\* netProceeds = executionPrice * a * (1 - commission); capital increases by
\* exactly netProceeds, positions[symbol] decreases by exactly a, the entry
\* being removed when the result is exactly zero, and one record {sell,
\* symbol, a, executionPrice, netProceeds} is appended.
C9_Step ==
    SignalStep("sell") =>
        LET sym == signal'.symbol
            a == signal'.amount
            p == market_snapshot'[sym].ticker.last
            executionPrice == p * (SlipDen - bt.slippage)
            netProceeds == executionPrice * a * (CommDen - bt.commission)
        IN  (sym \in DOMAIN bt.positions /\ bt.positions[sym] >= a) =>
                /\ bt'.capital = bt.capital + netProceeds
                /\ IF bt.positions[sym] - a = 0
                   THEN sym \notin DOMAIN bt'.positions
                   ELSE /\ sym \in DOMAIN bt'.positions
                        /\ bt'.positions[sym] = bt.positions[sym] - a
                /\ OthersUnchanged(sym)
                /\ bt'.trades = Append(bt.trades,
                      [timestamp |-> df[idx'].timestamp, action |-> "sell",
                       symbol |-> sym, amount |-> a,
                       price |-> executionPrice, proceeds |-> netProceeds])

\* C9: every step that processes a fillable sell accounts for it as stated.
C9_SellFill == [][C9_Step]_vars

\* A position bought at one bar is sold in full at the next: its entry is gone.
C9_Witness ==
    /\ pc = "running"
    /\ signal # None
    /\ signal.action = "sell"
    /\ signal.amount > 0
    /\ Len(bt.trades) = 2
    /\ bt.trades[1].action = "buy"
    /\ bt.trades[2].action = "sell"
    /\ bt.trades[2].timestamp = Last(bt.timestamps)
    /\ bt.trades[2].proceeds > 0
    /\ signal.symbol \notin DOMAIN bt.positions

\* C10. An unfillable sell is dropped without effect.  A sell for a symbol
\* that is not held, or for more than is held, leaves capital, positions and
\* trades as they were, and the bar's equity value is still appended.
\* Nothing is queued or retried: a bar changes the account only by filling
\* the signal returned for that very bar.
C10_Step ==
    /\ ( /\ TickStep
         /\ signal' # None
         /\ signal'.action = "sell"
         /\ \/ signal'.symbol \notin DOMAIN bt.positions
            \/ bt.positions[signal'.symbol] < signal'.amount ) =>
            /\ bt'.capital = bt.capital
            /\ bt'.positions = bt.positions
            /\ bt'.trades = bt.trades
            /\ Len(bt'.equity_curve) = Len(bt.equity_curve) + 1
            /\ SubSeq(bt'.equity_curve, 1, Len(bt.equity_curve)) = bt.equity_curve
            /\ Last(bt'.equity_curve) =
                  _calculate_portfolio_value(bt, market_snapshot')
    /\ ( /\ TickStep
         /\ \/ bt'.capital # bt.capital
            \/ bt'.positions # bt.positions
            \/ bt'.trades # bt.trades ) =>
            /\ signal' # None
            /\ Len(bt'.trades) = Len(bt.trades) + 1
            /\ Last(bt'.trades).action = signal'.action
            /\ Last(bt'.trades).symbol = signal'.symbol
            /\ Last(bt'.trades).amount = signal'.amount
            /\ Last(bt'.trades).timestamp = df[idx'].timestamp

\* C10: every step that processes an unfillable sell drops it.
C10_UnfillableSellDropped == [][C10_Step]_vars

\* 0.1 is held and priced, a sell of 2.0 has just been dropped, and the
\* bar's equity value is on the curve.
C10_Witness ==
    /\ pc = "running"
    /\ idx = 2
    /\ signal # None
    /\ signal.action = "sell"
    /\ signal.amount = 20
    /\ signal.symbol \in DOMAIN market_snapshot
    /\ signal.symbol \in DOMAIN bt.positions
    /\ bt.positions[signal.symbol] = 1
    /\ Len(bt.trades) = 1
    /\ Len(bt.equity_curve) = 3

\* The total cost, slippage and commission included, of buying amount a at
\* reference price p on the instance self.
TotalCost(self, a, p) ==
    p * (SlipDen + self.slippage) * a * (CommDen + self.commission)

\* C11. An unfillable buy is dropped without effect.  A buy whose totalCost
\* exceeds the capital leaves capital, positions and trades as they were (no
\* part of it is filled).  It is neither queued nor retried: a bar for which
\* the strategy returns None changes nothing of the account, and a buy record
\* appended at a bar is the fill of the signal returned for that very bar, at
\* that bar's price, within the capital held before the bar.
C11_Step ==
    /\ ( /\ SignalStep("buy")
         /\ TotalCost(bt, signal'.amount,
                      market_snapshot'[signal'.symbol].ticker.last) > bt.capital ) =>
            /\ bt'.capital = bt.capital
            /\ bt'.positions = bt.positions
            /\ bt'.trades = bt.trades
    /\ (TickStep /\ signal' = None) =>
            /\ bt'.capital = bt.capital
            /\ bt'.positions = bt.positions
            /\ bt'.trades = bt.trades
    /\ ( /\ TickStep
         /\ bt'.trades # bt.trades
         /\ Last(bt'.trades).action = "buy" ) =>
            /\ SignalStep("buy")
            /\ bt'.trades = Append(bt.trades, Last(bt'.trades))
            /\ Last(bt'.trades).symbol = signal'.symbol
            /\ Last(bt'.trades).amount = signal'.amount
            /\ Last(bt'.trades).timestamp = df[idx'].timestamp
            /\ Last(bt'.trades).cost =
                  TotalCost(bt, signal'.amount,
                            market_snapshot'[signal'.symbol].ticker.last)
            /\ Last(bt'.trades).cost <= bt.capital

\* C11: every step that processes an unaffordable buy drops it for good.
C11_UnfillableBuyDropped == [][C11_Step]_vars

\* A buy of 2.0 at 50000 has just been dropped at the default rates (it costs
\* more than the 100000 held), and the next bar's price would make it
\* affordable.
C11_Witness ==
    /\ pc = "running"
    /\ idx = 1
    /\ Len(df) = 2
    /\ df[2].close = 1
    /\ signal # None
    /\ signal.action = "buy"
    /\ signal.amount = 20
    /\ signal.symbol \in DOMAIN market_snapshot
    /\ market_snapshot[signal.symbol].ticker.last = 5
    /\ bt.commission = 1
    /\ bt.slippage = 1
    /\ TotalCost(bt, 20, 5) > bt.capital
    /\ TotalCost(bt, 20, 1) <= bt.capital
    /\ bt.capital = 10 * MoneyScale
    /\ bt.positions = EmptyDict
    /\ bt.trades = <<>>
    /\ Len(bt.equity_curve) = 2

\* The step processes a bar whose signal is filled: a buy within the
\* capital, or a sell within the quantity held, of a symbol the snapshot
\* prices.
FillStep ==
    /\ TickStep
    /\ signal' # None
    /\ signal'.symbol \in DOMAIN market_snapshot'
    /\ \/ /\ signal'.action = "buy"
          /\ TotalCost(bt, signal'.amount,
                       market_snapshot'[signal'.symbol].ticker.last) <= bt.capital
       \/ /\ signal'.action = "sell"
          /\ signal'.symbol \in DOMAIN bt.positions
          /\ bt.positions[signal'.symbol] >= signal'.amount

\* C12. The trade log is append-only, one entry per executed fill.  A bar
\* whose signal is filled appends exactly one record at the end; every other
\* step short of a reset (alone or at the start of run) leaves the log as it
\* is, so the records already there are never modified, reordered or removed;
\* the log never has more records than bars processed; and the result's
\* num_trades is the length of its trades, which are the instance's.
C12_Step ==
    /\ (TickStep /\ FillStep) =>
            /\ Len(bt'.trades) = Len(bt.trades) + 1
            /\ SubSeq(bt'.trades, 1, Len(bt.trades)) = bt.trades
            /\ Last(bt'.trades).timestamp = df[idx'].timestamp
    /\ (~FillStep /\ ~ResetStep /\ ~RunStartStep) => bt'.trades = bt.trades
    /\ ResetStep \/ RunStartStep => bt'.trades = <<>>
    /\ RunReturnStep =>
            /\ results'.trades = bt.trades
            /\ results'.num_trades = Len(bt.trades)

C12_State ==
    /\ pc = "running" => Len(bt.trades) <= idx
    /\ results # None => results.num_trades = Len(results.trades)

\* C12: the trade log grows by one record per fill and never otherwise.
C12_TradeLogAppendOnly == [] C12_State /\ [][C12_Step]_vars

\* A run of two bars, one of them with a fill, has returned one trade.
C12_Witness ==
    /\ pc = "idle"
    /\ results # None
    /\ Len(results.timestamps) = 2
    /\ results.num_trades = 1
    /\ Len(results.trades) = 1
    /\ bt.trades = results.trades

\* The step ends a run call that processed no bar: by returning, or by an
\* exception raised before the loop.
ZeroBarRunEnds ==
    /\ pc \in {"entered", "running"}
    /\ pc' = "idle"
    /\ bt.timestamps = <<>>

\* C13. Empty dataset.  A run with zero bars (the primary frame is empty, or
\* the date filter empties it, or historical_data holds no instrument at all)
\* does not fail, and returns a result with equity_curve =
\* <<initial_capital>>, no trades, final_value = initial_capital and
\* total_return = 0.
C13_Step ==
    ZeroBarRunEnds =>
        /\ raised' = "none"
        /\ results' # None
        /\ results'.equity_curve = <<bt.initial_capital>>
        /\ results'.trades = <<>>
        /\ results'.num_trades = 0
        /\ results'.final_value = bt.initial_capital
        /\ results'.total_return = Divide(0, 1)

\* C13: every run over zero bars returns the degenerate result.
C13_EmptyDataset == [][C13_Step]_vars

\* The dataframe historical_data holds for sym.
FrameOf(sym) ==
    LET i == CHOOSE j \in 1..Len(historical_data) : historical_data[j].symbol = sym
    IN  historical_data[i].df

\* The ticker a bar gives.
TickerOf(bar) ==
    [last |-> bar.close, bid |-> bar.low, ask |-> bar.high, volume |-> bar.volume]

\* C14. No look-ahead.  After each bar, t being the bar's timestamp (the
\* cursor): every instrument of the snapshot the strategy was given is one of
\* the dataset's, every bar of its window has timestamp <= t, and its ticker
\* is the ticker of one of its bars with timestamp <= t; a fill made at the
\* bar is priced from that snapshot's last price, and the bar's equity value
\* is the valuation on that snapshot.
C14_NoLookAhead ==
    (pc = "running" /\ idx >= 1) =>
        LET t == df[idx].timestamp
        IN  /\ Last(bt.timestamps) = t
            /\ \A sym \in DOMAIN market_snapshot :
                  /\ \E j \in 1..Len(historical_data) : historical_data[j].symbol = sym
                  /\ \A i \in 1..Len(market_snapshot[sym].ohlcv) :
                        market_snapshot[sym].ohlcv[i].timestamp <= t
                  /\ \E i \in 1..Len(FrameOf(sym)) :
                        /\ FrameOf(sym)[i].timestamp <= t
                        /\ market_snapshot[sym].ticker = TickerOf(FrameOf(sym)[i])
            /\ (bt.trades # <<>> /\ Last(bt.trades).timestamp = t) =>
                  LET fill == Last(bt.trades)
                  IN  /\ fill.symbol \in DOMAIN market_snapshot
                      /\ fill.price =
                            market_snapshot[fill.symbol].ticker.last
                              * (IF fill.action = "buy"
                                 THEN SlipDen + bt.slippage
                                 ELSE SlipDen - bt.slippage)
            /\ Last(bt.equity_curve) =
                  _calculate_portfolio_value(bt, market_snapshot)

\* The first of two bars has been processed with a fill in the second
\* instrument, whose frame holds a later bar at another price: the window
\* shown stops at the cursor.
C14_Witness ==
    /\ pc = "running"
    /\ idx = 1
    /\ Len(df) = 2
    /\ Len(historical_data) = 2
    /\ Len(FrameOf(ETH)) = 2
    /\ FrameOf(ETH)[2].timestamp > df[idx].timestamp
    /\ FrameOf(ETH)[2].close # FrameOf(ETH)[1].close
    /\ ETH \in DOMAIN market_snapshot
    /\ Len(market_snapshot[ETH].ohlcv) = 1
    /\ Len(market_snapshot[BTC].ohlcv) = 1
    /\ Len(bt.trades) = 1
    /\ bt.trades[1].symbol = ETH
    /\ bt.positions # EmptyDict

\* The positions in frame of the bars with timestamp <= t.
AtOrBefore(frame, t) == { i \in 1..Len(frame) : frame[i].timestamp <= t }

\* The most recent bar of frame at or before t (there is one).
MostRecent(frame, t) ==
    LET i == CHOOSE k \in AtOrBefore(frame, t) :
                \A o \in AtOrBefore(frame, t) :
                    frame[o].timestamp <= frame[k].timestamp
    IN  frame[i]

\* C15. Snapshot contents.  After each bar, t being its timestamp: the
\* snapshot holds exactly the instruments with at least one bar at or before
\* t; for each, the ticker is that of its most recent bar at or before t
\* (last = close, bid = low, ask = high, volume = volume), and the window is
\* the sub-sequence of all its bars with timestamp <= t, in their order.
C15_SnapshotContents ==
    (pc = "running" /\ idx >= 1) =>
        LET t == df[idx].timestamp
            WithinCursor(bar) == bar.timestamp <= t
        IN  /\ DOMAIN market_snapshot =
                  { historical_data[j].symbol : j \in
                      { k \in 1..Len(historical_data) :
                            AtOrBefore(historical_data[k].df, t) # {} } }
            /\ \A sym \in DOMAIN market_snapshot :
                  /\ market_snapshot[sym].ticker.last = MostRecent(FrameOf(sym), t).close
                  /\ market_snapshot[sym].ticker.bid = MostRecent(FrameOf(sym), t).low
                  /\ market_snapshot[sym].ticker.ask = MostRecent(FrameOf(sym), t).high
                  /\ market_snapshot[sym].ticker.volume = MostRecent(FrameOf(sym), t).volume
                  /\ DOMAIN market_snapshot[sym].ticker = {"last", "bid", "ask", "volume"}
                  /\ market_snapshot[sym].ohlcv = SelectSeq(FrameOf(sym), WithinCursor)

\* The second bar has been processed: both instruments are in the snapshot
\* with windows of two bars, each ticker being that of the second bar, whose
\* price differs from the first.
C15_Witness ==
    /\ pc = "running"
    /\ idx = 2
    /\ DOMAIN market_snapshot = {BTC, ETH}
    /\ Len(market_snapshot[BTC].ohlcv) = 2
    /\ Len(market_snapshot[ETH].ohlcv) = 2
    /\ market_snapshot[ETH].ohlcv[1].close # market_snapshot[ETH].ohlcv[2].close
    /\ market_snapshot[BTC].ohlcv[1].close # market_snapshot[BTC].ohlcv[2].close
    /\ market_snapshot[ETH].ticker.last = market_snapshot[ETH].ohlcv[2].close
    /\ market_snapshot[BTC].ticker.last = market_snapshot[BTC].ohlcv[2].close

\* Quantity a (in units of 1 / AmtDen) at price p, as money.
Worth(a, p) == p * a * (MoneyScale \div AmtDen)

\* C16. Portfolio valuation.  The equity value appended at a bar is the
\* capital plus, over all held symbols, quantity held times the last price of
\* the symbol in that bar's snapshot, capital and quantities being those after
\* the bar's fill; every held symbol is priced by the snapshot.  Instance:
\* capital 50000 with 1.0 unit held at last price 50000 is valued 100000.
C16_PortfolioValuation ==
    /\ (pc = "running" /\ idx >= 1) =>
          /\ DOMAIN bt.positions \subseteq DOMAIN market_snapshot
          /\ Last(bt.equity_curve) =
                bt.capital
                  + SumOver([s \in DOMAIN bt.positions |->
                                Worth(bt.positions[s], market_snapshot[s].ticker.last)],
                            DOMAIN bt.positions)
    /\ _calculate_portfolio_value(
          [capital |-> 5 * MoneyScale, positions |-> [s \in {BTC} |-> AmtDen]],
          [s \in {BTC} |-> [ticker |-> [last |-> 5]]]) = 10 * MoneyScale

\* Two instruments were bought at the two bars of a run; both are held and
\* the second bar's equity value counts them.
C16_Witness ==
    /\ pc = "running"
    /\ idx = 2
    /\ DOMAIN bt.positions = {BTC, ETH}
    /\ bt.positions[BTC] > 0
    /\ bt.positions[ETH] > 0
    /\ bt.capital > 0
    /\ market_snapshot[BTC].ticker.last # market_snapshot[ETH].ticker.last
    /\ Last(bt.equity_curve) > bt.capital
    /\ Last(bt.equity_curve) # bt.initial_capital

\* C17. A BacktestResult is an immutable snapshot.  Once run has returned a
\* result and the caller holds it, no later step (a reset, the start of another
\* run, a bar of another run, its return) changes any field of it: its
\* equity_curve, timestamps and trades keep the contents they had when run
\* returned.
C17_Step == held # None => held' = held

\* C17: a held result never changes.
C17_ResultImmutable == [][C17_Step]_vars

\* The caller holds the result of a run with a trade, and a later run on the
\* same instance has returned another result; the instance's lists are no
\* longer the held result's.
C17_Witness ==
    /\ pc = "idle"
    /\ held # None
    /\ results # None
    /\ shared = {}
    /\ Len(held.timestamps) = MaxBars
    /\ held.trades # <<>>
    /\ results.trades # held.trades
    /\ results.equity_curve # held.equity_curve
    /\ results.timestamps # held.timestamps
    /\ bt.equity_curve = results.equity_curve

\* The timestamps of the rows of frame, in order.
TimestampsOf(frame) == [i \in 1..Len(frame) |-> frame[i].timestamp]

StrictlyIncreasing(q) == \A i, j \in 1..Len(q) : i < j => q[i] < q[j]

\* The bars of the primary instrument (the first key of historical_data)
\* that the date range of the run call lets through.
DateFiltered ==
    LET InRange(bar) ==
            /\ start_date # NoDate => bar.timestamp >= start_date
            /\ end_date # NoDate => bar.timestamp <= end_date
    IN  SelectSeq(historical_data[1].df, InRange)

\* C18. Sequential replay.  Inside a run, the recorded timestamps are the
\* timestamps of the first bars of the date-filtered primary frame, in order
\* and strictly increasing.  Between two bars (pc = "running") idx bars are
\* complete: idx timestamps, idx strategy calls, idx equity values after the
\* seed.  While the strategy is awaited for bar idx + 1, that bar's timestamp
\* is the only one recorded beyond the complete bars, the strategy has been
\* called once for it, and neither its fill nor its equity value is there
\* yet; the next timestamp is recorded only after both.  When run returns,
\* every bar has been processed, the strategy was called once per bar, and
\* the result's timestamps are those of the date-filtered frame.
C18_State ==
    /\ pc \in {"running", "awaiting"} =>
          /\ df = DateFiltered
          /\ bt.timestamps = SubSeq(TimestampsOf(DateFiltered), 1, Len(bt.timestamps))
          /\ StrictlyIncreasing(bt.timestamps)
          /\ Len(bt.equity_curve) = idx + 1
          /\ Len(bt.trades) <= idx
          /\ \A i \in 1..Len(bt.trades) : bt.trades[i].timestamp <= df[idx].timestamp
    /\ pc = "running" => Len(bt.timestamps) = idx /\ calls = idx
    /\ pc = "awaiting" => Len(bt.timestamps) = idx + 1 /\ calls = idx + 1
    /\ (pc = "idle" /\ results # None) =>
          /\ calls = Len(results.timestamps)
          /\ StrictlyIncreasing(results.timestamps)

C18_Step ==
    /\ (pc = "running" /\ pc' = "awaiting") =>
          /\ bt'.timestamps = Append(bt.timestamps, df[idx + 1].timestamp)
          /\ bt'.equity_curve = bt.equity_curve
          /\ bt'.trades = bt.trades
          /\ bt'.capital = bt.capital
          /\ bt'.positions = bt.positions
    /\ (pc = "awaiting" /\ pc' = "running") =>
          /\ idx' = idx + 1
          /\ bt'.timestamps = bt.timestamps
          /\ Len(bt'.equity_curve) = Len(bt.equity_curve) + 1
    /\ pc = "awaiting" => pc' \in {"awaiting", "running"}
    /\ RunReturnStep =>
          /\ calls = Len(df)
          /\ results'.timestamps = TimestampsOf(DateFiltered)

\* C18: bars are replayed one at a time, in timestamp order, each completed
\* before the next begins.
C18_SequentialReplay == [] C18_State /\ [][C18_Step]_vars

\* The strategy is awaited for the second bar of a two-instrument dataset;
\* the first bar is complete, with a fill.
C18_Witness ==
    /\ pc = "awaiting"
    /\ Len(historical_data) = 2
    /\ Len(df) = 2
    /\ idx = 1
    /\ calls = 2
    /\ bt.timestamps = <<1, 2>>
    /\ Len(bt.equity_curve) = 2
    /\ Len(bt.trades) = 1
    /\ bt.trades[1].timestamp = 1

\* x is the quotient n / d as float division gives it: for d # 0 the
\* fraction equal to n / d, in lowest terms or not; for d = 0, nan, inf or
\* -inf by the sign of n.
IsQuotient(x, n, d) ==
    IF d = 0
    THEN x = (IF n = 0 THEN NaN ELSE IF n > 0 THEN PosInf ELSE NegInf)
    ELSE /\ IsFinite(x)
         /\ x.den > 0
         /\ d % x.den = 0
         /\ n = x.num * (d \div x.den)

\* y is x * 100.
IsTimes100(y, x) ==
    IF "num" \in DOMAIN x
    THEN DOMAIN y = {"hundredfold_of"} /\ y.hundredfold_of = x
    ELSE y = x

\* The highest of the first i values of the curve q.
RunningMax(q, i) == CHOOSE m \in { q[k] : k \in 1..i } : \A k \in 1..i : q[k] <= m

\* C19. Max drawdown.  For an equity curve of positive values, max_drawdown
\* is the least of the quotients (equity[i] - max(equity[0..i])) /
\* max(equity[0..i]): it is one of them and none is smaller; it is <= 0, and 0
\* exactly when no value is below the running maximum; max_drawdown_pct is
\* max_drawdown * 100.  Instance: [100000, 110000, 90000, 95000] gives -2/11.
C19_MaxDrawdown ==
    (results # None /\ \A i \in 1..Len(results.equity_curve) :
                            results.equity_curve[i] > 0) =>
        LET equity == results.equity_curve
            mdd == results.max_drawdown
            pct == results.max_drawdown_pct
            Drawdown(i) ==
                Fraction(equity[i] - RunningMax(equity, i), RunningMax(equity, i))
        IN  /\ IsFinite(mdd)
            /\ \E i \in 1..Len(equity) : mdd = Drawdown(i)
            /\ \A i \in 1..Len(equity) :
                  Drawdown(i).num * mdd.den >= mdd.num * Drawdown(i).den
            /\ mdd.num <= 0
            /\ (mdd.num = 0) <=>
                  (\A i \in 1..Len(equity) : equity[i] >= RunningMax(equity, i))
            /\ IsTimes100(pct, mdd)
            /\ equity = <<10 * MoneyScale, 11 * MoneyScale, 9 * MoneyScale,
                          19 * (MoneyScale \div 2)>> =>
                  mdd = [num |-> -2, den |-> 11]

\* The metrics of the instance curve: a fall of 2/11 from the high, partly
\* recovered.
C19_Witness ==
    /\ results # None
    /\ results.equity_curve =
          <<10 * MoneyScale, 11 * MoneyScale, 9 * MoneyScale, 19 * (MoneyScale \div 2)>>
    /\ results.max_drawdown = [num |-> -2, den |-> 11]
    /\ results.max_drawdown_pct = [hundredfold_of |-> [num |-> -2, den |-> 11]]

\* C20. Return metrics agree with the equity curve.  In every result,
\* final_value is the last entry of equity_curve, the first entry is
\* initial_capital, total_return is (equity[N] - equity[0]) / equity[0], and
\* total_return_pct is total_return * 100.
C20_ReturnMetrics ==
    results # None =>
        LET equity == results.equity_curve
        IN  /\ results.final_value = equity[Len(equity)]
            /\ equity[1] = results.initial_capital
            /\ IsQuotient(results.total_return,
                          equity[Len(equity)] - equity[1], equity[1])
            /\ IsTimes100(results.total_return_pct, results.total_return)

\* A run of MaxBars bars has returned with a loss: fills were made and their
\* costs took the final value below the initial capital.
C20_Witness ==
    /\ results # None
    /\ results.initial_capital > 0
    /\ Len(results.equity_curve) = MaxBars + 1
    /\ results.trades # <<>>
    /\ results.final_value < results.initial_capital
    /\ IsFinite(results.total_return)
    /\ results.total_return.num < 0
    /\ results.total_return_pct.hundredfold_of.num < 0


\* C21: a result whose equity curve has fewer than 2 points has volatility,
\* sharpe_ratio and max_drawdown all equal to 0, and in every result
\* sharpe_ratio is 0 whenever volatility is not > 0.
C21_DegenerateRiskMetrics ==
    results /= None =>
        /\ Len(results.equity_curve) < 2 =>
              /\ results.volatility = Zero
              /\ results.sharpe_ratio = Zero
              /\ results.max_drawdown = Zero
        /\ ~Positive(results.volatility) => results.sharpe_ratio = Zero

\* The same for instances constructed with a non-zero initial capital.
C21_WithCapital ==
    bt.initial_capital /= 0 => C21_DegenerateRiskMetrics

\* The sharpe_ratio part alone.
C21_SharpeOnly ==
    results /= None /\ ~Positive(results.volatility)
        => results.sharpe_ratio = Zero


\* The bars of the primary instrument at or before the cursor timestamp.
BarsAt(timestamp) == Len(UpTo(historical_data[1].df, timestamp))

\* What generate_signal answered at the last tick of a run in progress: a
\* signal only for an instrument of the snapshot whose window has MinBars
\* bars or more, and None when no window is that long.
SignalNeedsHistory ==
    pc = "running" /\ idx > 0 =>
        /\ signal # None =>
              /\ signal.symbol \in DOMAIN market_snapshot
              /\ Len(market_snapshot[signal.symbol].ohlcv) >= MinBars
        /\ (\A sym \in DOMAIN market_snapshot :
                Len(market_snapshot[sym].ohlcv) < MinBars) => signal = None

\* C22, as stated: generate_signal never emits a signal for an instrument
\* whose window has fewer than 50 bars or that is absent from the snapshot,
\* and returns None when no instrument has enough history; a single-instrument
\* run has no fill during its first 49 ticks.
C22_First49Ticks ==
    /\ SignalNeedsHistory
    /\ pc = "running" /\ idx < MinBars => bt.trades = <<>>

\* C22, amended: the same of generate_signal; a run has no fill at a tick
\* at which fewer than 50 bars of the instrument lie at or before the cursor
\* (with a start_date the first ticks may have 50 bars behind them).
C22_InsufficientHistory ==
    /\ SignalNeedsHistory
    /\ pc = "running" =>
          \A i \in 1..Len(bt.trades) : BarsAt(bt.trades[i].timestamp) >= MinBars
    /\ pc = "running" /\ start_date = NoDate /\ idx < MinBars => bt.trades = <<>>

C22_Witness ==
    /\ pc = "running"
    /\ start_date = NoDate
    /\ idx = MinBars
    /\ signal # None
    /\ Len(bt.trades) = 1
    /\ bt.trades[1].timestamp = MinBars

\* The instrument has a window of MinBars bars or more in the snapshot.
HasHistory(sym) ==
    /\ sym \in DOMAIN market_snapshot
    /\ "ohlcv" \in DOMAIN market_snapshot[sym]
    /\ Len(market_snapshot[sym].ohlcv) >= MinBars

\* The two rows generate_signal reads for the instrument: the last two rows
\* of its window that have every indicator defined (none when the indicators
\* fail or fewer than two rows are left).
RowsRead(sym) ==
    LET added == _add_indicators(strategy, market_snapshot[sym].ohlcv,
                                 macd_lines[sym])
    IN  IF added.failed \/ Len(added.df) < 2 THEN <<>>
        ELSE SubSeq(added.df, Len(added.df) - 1, Len(added.df))

\* The instrument qualifies: it has the history, and its rows meet the buy
\* or the sell rule.
Qualifies(sym) ==
    /\ HasHistory(sym)
    /\ LET rows == RowsRead(sym)
       IN  /\ rows # <<>>
           /\ \/ BuyCondition(strategy, rows[2], rows[1])
              \/ SellCondition(strategy, rows[2], rows[1])

Elements(q) == { q[i] : i \in 1..Len(q) }

\* C23: generate_signal returns None or one signal; the signal is for the
\* first configured symbol that qualifies, the symbols configured after it
\* are not evaluated, and None is returned only when no symbol qualifies.
C23_FirstMatch ==
    calls = 1 =>
        LET symbols == strategy.symbols
            qualifying == { k \in 1..Len(symbols) : Qualifies(symbols[k]) }
        IN  IF qualifying = {}
            THEN signal = None
            ELSE LET first == CHOOSE k \in qualifying :
                                 \A j \in qualifying : k <= j
                 IN  /\ signal # None
                     /\ signal.action \in {"buy", "sell"}
                     /\ signal.symbol = symbols[first]
                     /\ \A j \in (first + 1)..Len(symbols) :
                           symbols[j] \notin Elements(evaluated)

C23_Witness ==
    /\ calls = 1
    /\ strategy.symbols = <<ETH, BTC>>
    /\ Qualifies(BTC)
    /\ Qualifies(ETH)
    /\ signal # None
    /\ signal.symbol = ETH
    /\ evaluated = <<ETH>>

\* The signal emitted is `action` for sym.
Emits(action, sym) ==
    signal # None /\ signal.symbol = sym /\ signal.action = action

\* C24: for an instrument with sufficient history whose indicators were
\* computed, buy is emitted exactly when the RSI of the latest bar is below
\* the oversold threshold, the MACD of the latest bar above its signal line
\* and the MACD of the previous bar at or below its signal line; sell exactly
\* when the RSI of the latest bar is above the overbought threshold, the MACD
\* below the signal line and the previous MACD at or above it; the amount is
\* position_size; with oversold <= overbought the two are never both true.
C24_SignalRule ==
    calls = 1 =>
        \A sym \in Elements(evaluated) :
            LET window == market_snapshot[sym].ohlcv
                n == Len(window)
                lines == macd_lines[sym]
            IN  IF "close" \notin DOMAIN window[n]
                THEN ~Emits("buy", sym) /\ ~Emits("sell", sym)
                ELSE
                LET latest_rsi == calculate_rsi(Column(window, "close"),
                                                strategy.rsi_period)[n]
                    buy == /\ latest_rsi # NaN
                           /\ FloatLess(latest_rsi, Fraction(strategy.rsi_oversold, 1))
                           /\ lines[n].macd > lines[n].signal
                           /\ lines[n - 1].macd <= lines[n - 1].signal
                    sell == /\ latest_rsi # NaN
                            /\ FloatLess(Fraction(strategy.rsi_overbought, 1), latest_rsi)
                            /\ lines[n].macd < lines[n].signal
                            /\ lines[n - 1].macd >= lines[n - 1].signal
                IN  /\ Emits("buy", sym) <=> buy
                    /\ Emits("sell", sym) <=> sell
                    /\ signal # None => signal.amount = strategy.position_size
                    /\ strategy.rsi_oversold <= strategy.rsi_overbought
                          => ~(buy /\ sell)

\* The same rule read on the last two rows that dropna leaves, which are the
\* latest and the previous bar only when the RSI of both is defined.
C24_OnRowsRead ==
    calls = 1 =>
        \A sym \in Elements(evaluated) :
            LET rows == RowsRead(sym)
            IN  IF rows = <<>>
                THEN ~Emits("buy", sym) /\ ~Emits("sell", sym)
                ELSE
                LET buy == /\ FloatLess(rows[2].rsi, Fraction(strategy.rsi_oversold, 1))
                           /\ rows[2].macd > rows[2].signal
                           /\ rows[1].macd <= rows[1].signal
                    sell == /\ FloatLess(Fraction(strategy.rsi_overbought, 1), rows[2].rsi)
                            /\ rows[2].macd < rows[2].signal
                            /\ rows[1].macd >= rows[1].signal
                IN  /\ Emits("buy", sym) <=> buy
                    /\ Emits("sell", sym) <=> sell
                    /\ signal # None => signal.amount = strategy.position_size
                    /\ ~(buy /\ sell)

\* The indicator computation fails on the instrument's window: it has no
\* close column, and df["close"] raises KeyError inside _add_indicators.
IndicatorsFail(sym) ==
    /\ HasHistory(sym)
    /\ \E i \in 1..Len(market_snapshot[sym].ohlcv) :
          "close" \notin DOMAIN market_snapshot[sym].ohlcv[i]

\* C25, as stated: when the indicator computation fails for an instrument,
\* generate_signal does not raise and returns no signal for that invocation.
C25_NoSignalAtAll ==
    calls = 1 /\ (\E sym \in Elements(evaluated) : IndicatorsFail(sym)) =>
        raised = "none" /\ signal = None

\* C25, amended: generate_signal does not raise and returns no signal for
\* that instrument; it goes on to the instruments configured after it, and
\* returns None when the instrument is the only one configured.
C25_FailureSwallowed ==
    calls = 1 =>
        \A sym \in Elements(evaluated) :
            IndicatorsFail(sym) =>
                /\ raised = "none"
                /\ ~Emits("buy", sym) /\ ~Emits("sell", sym)
                /\ strategy.symbols = <<sym>> => signal = None
                /\ \A k \in 1..Len(strategy.symbols) :
                      HasHistory(strategy.symbols[k]) =>
                          strategy.symbols[k] \in Elements(evaluated)
                          \/ \E j \in 1..(k - 1) :
                                signal # None /\ signal.symbol = strategy.symbols[j]

C25_Witness ==
    /\ calls = 1
    /\ evaluated = <<BTC, ETH>>
    /\ IndicatorsFail(BTC)
    /\ Emits("buy", ETH)

\* A tick of a run on the MomentumStrategy.
MomentumTick == pc = "running" /\ pc' = "running" /\ idx' = idx + 1

\* During a run the snapshot the strategy was given is, after the call, what
\* _prepare_market_snapshot built: the bars of historical_data up to the
\* cursor, with the columns they came with.
C26_State ==
    pc = "running" =>
        /\ historical_data \in MomentumData
        /\ idx > 0 =>
              market_snapshot =
                  _prepare_market_snapshot(historical_data, df[idx].timestamp)

C26_Step == MomentumTick => historical_data' = historical_data

\* C26: a run (date filter, snapshot building) and the generate_signal calls
\* in it leave the caller's historical bar sequences as they were given.
C26_DataReadOnly == []C26_State /\ [][C26_Step]_vars

C26_Witness ==
    /\ pc = "running"
    /\ start_date = MinBars
    /\ idx = 1
    /\ evaluated = <<BTC>>
    /\ Len(market_snapshot[BTC].ohlcv) = MinBars
    /\ historical_data \in MomentumData

\* C27: calculate_sma returns a sequence as long as its input whose first
\* period - 1 positions are undefined and whose every later position is the
\* unweighted mean of the `period` inputs ending there; with fewer inputs
\* than the period every position is undefined.
C27_SmaShape ==
    "calculate_sma" \in computed =>
        /\ Len(sma) = Len(data)
        /\ \A i \in 1..Len(data) :
              /\ i < period => sma[i] = NaN
              /\ i >= period =>
                    IsQuotient(sma[i], SumRange(data, i - period + 1, i), period)

C27_Witness ==
    /\ "calculate_sma" \in computed
    /\ period = 3
    /\ data = <<1, 2, 4, 4>>
    /\ sma = <<NaN, NaN, Fraction(7, 3), Fraction(10, 3)>>

\* C28: calculate_rsi returns a sequence as long as its input, and every
\* value of it that is not undefined lies in [0, 100].
C28_RsiRange ==
    "calculate_rsi" \in computed =>
        /\ Len(rsi) = Len(data)
        /\ \A i \in 1..Len(rsi) :
              rsi[i] # NaN =>
                  /\ FloatLessEq(Zero, rsi[i])
                  /\ FloatLessEq(rsi[i], Hundred)

C28_Witness ==
    /\ "calculate_rsi" \in computed
    /\ period = 2
    /\ data = <<1, 2, 1, 4>>
    /\ rsi = <<NaN, Hundred, Fraction(50, 1), Fraction(75, 1)>>

\* C29: at every position with at least `period` observations where the
\* average loss over the trailing window is zero, calculate_rsi returns
\* exactly 100, also when the average gain is zero too.
C29_RsiZeroLoss ==
    "calculate_rsi" \in computed =>
        \A i \in period..Len(data) :
            SumRange(Losses(data), i - period + 1, i) = 0 => rsi[i] = Hundred

\* The same for the windows with some gain.
C29_WithGain ==
    "calculate_rsi" \in computed =>
        \A i \in period..Len(data) :
            /\ SumRange(Losses(data), i - period + 1, i) = 0
            /\ SumRange(Gains(data), i - period + 1, i) > 0
            => rsi[i] = Hundred

\* C30: normalize_data returns a sequence as long as its input; for a
\* series that is not constant every value is in [0, 1], the least input is
\* mapped to 0, the greatest to 1 and the order of the inputs is kept; for a
\* constant series every value is 0.5.
C30_Normalize ==
    "normalize_data" \in computed =>
        /\ Len(normalized) = Len(data)
        /\ \A i, j \in 1..Len(data) :
              IF \A k \in 1..Len(data) : data[k] = data[1]
              THEN normalized[i] = Half
              ELSE /\ FloatLessEq(Zero, normalized[i])
                   /\ FloatLessEq(normalized[i], One)
                   /\ data[i] = Min(data) => normalized[i] = Zero
                   /\ data[i] = Max(data) => normalized[i] = One
                   /\ data[i] < data[j] => FloatLess(normalized[i], normalized[j])
                   /\ data[i] = data[j] => normalized[i] = normalized[j]

C30_Witness ==
    /\ "normalize_data" \in computed
    /\ data = <<2, 1, 4, 2>>
    /\ normalized = <<Fraction(1, 3), Zero, One, Fraction(1, 3)>>

\* A step in which a call of engine.stop() returns: to a stop_engine
\* request, or to the except block of a call of start.
StopReturnsStep ==
    \/ handler' = "stop_engine" /\ stops' = stops - 1
    \/ handler' = "stop_engine" /\ stops' = stops /\ engine # None
         /\ engine.running /\ ~engine'.running
    \/ \E i \in 1..Len(starts) :
          starts[i].pc \in {"cycle", "stopping"} /\ starts[i].pc # starts'[i].pc
            /\ starts'[i].stopped /\ ~starts[i].resumed
            /\ (starts[i].pc = "stopping" \/ ~starts[i].stopped)

Ended == {"returned", "raised"}

C31_State ==
    /\ handler = "startup_event" /\ engine # None => ~engine.running
    /\ \A i \in 1..Len(starts) : ~starts[i].resumed

C31_Step == StopReturnsStep => ~engine'.running

C31_Returns ==
    \A i \in 1..MaxStarts :
        (i <= Len(starts) /\ starts[i].stopped)
            ~> (i <= Len(starts) /\ starts[i].pc \in Ended)

\* C31. TradingEngine stop.  A newly constructed engine has running = FALSE;
\* when a call of stop() returns, running is FALSE; and a call of start that
\* was in progress when stop() lowered the flag goes into no new trading
\* cycle after the one in progress and returns.
C31_EngineStop == []C31_State /\ [][C31_Step]_vars /\ C31_Returns

\* The same while engine.start has been scheduled at most once.
C31_OneStart_State == Len(starts) <= 1 => C31_State

C31_OneStart_Step == Len(starts') <= 1 => C31_Step

C31_OneStart_Returns ==
    (Len(starts) = 1 /\ starts[1].stopped)
        ~> (\/ Len(starts) = 1 /\ starts[1].pc \in Ended
            \/ Len(starts) > 1)

C31_OneStart ==
    []C31_OneStart_State /\ [][C31_OneStart_Step]_vars /\ C31_OneStart_Returns

\* The engine's state as the requests see it.
EngineState == <<engine, starts, stops>>

\* A step of the start_engine handler, and a step in which the stop_engine
\* handler runs from its entry (not the resumption of a suspended one).
StartEngineStep == handler' = "start_engine"
StopEngineStep == handler' = "stop_engine" /\ stops' # stops - 1

C32_Start ==
    StartEngineStep =>
        /\ engine = None =>
              /\ response' = Response(503, "Engine not initialized", "none")
              /\ EngineState' = EngineState
        /\ engine # None /\ engine.running =>
              /\ response' = Response(400, "Engine already running", "none")
              /\ EngineState' = EngineState
        /\ engine # None /\ ~engine.running =>
              /\ response'.status = 200
              /\ response'.background = "engine.start"
              /\ starts' = Append(starts, StartCall("scheduled"))
              /\ <<engine, stops>>' = <<engine, stops>>

C32_Stop ==
    StopEngineStep =>
        /\ engine = None =>
              /\ response' = Response(503, "Engine not initialized", "none")
              /\ EngineState' = EngineState
        /\ engine # None /\ ~engine.running =>
              /\ response' = Response(400, "Engine not running", "none")
              /\ EngineState' = EngineState
        /\ engine # None /\ engine.running =>
              /\ ~engine'.running
              /\ \/ stops' = stops + 1 /\ response' = response
                 \/ stops' = stops /\ response' = Response(200, "Engine stopped", "none")
                      /\ engine'.exchange_manager.exchanges = {}

\* C32. API start/stop guards.  POST /engine/start is answered 400 ('Engine
\* already running') when engine.running and otherwise schedules
\* engine.start; POST /engine/stop is answered 400 ('Engine not running')
\* when not engine.running and otherwise stops the engine; both are answered
\* 503 when there is no engine; a rejected request changes no engine state.
C32_ApiGuards == [][C32_Start /\ C32_Stop]_vars

\* A start was rejected while the loop of an earlier one was in a cycle.
C32_Witness ==
    /\ handler = "start_engine"
    /\ response = Response(400, "Engine already running", "none")
    /\ engine.running
    /\ Len(starts) = 1 /\ starts[1].pc = "cycle"

\* The calls of engine.start that have begun and not ended.
Active == { i \in 1..Len(starts) : starts[i].pc \in InProgress }

\* C39. At most one live trading loop.  Under every interleaving of the
\* start and stop requests and of the calls of engine.start they schedule,
\* at most one call of start is in progress, and none is scheduled while
\* another is scheduled or in progress.
C39_OneLoop ==
    /\ Cardinality(Active) <= 1
    /\ Cardinality({ i \in 1..Len(starts) : starts[i].pc = "scheduled" })
          + Cardinality(Active) <= 1

\* C40. The running flag reflects the loop.  Whenever running is TRUE a call
\* of start is in progress: once every call of start has ended, by
\* returning or by the exception of connect_all, running is FALSE.
C40_RunningReflectsLoop ==
    engine # None /\ engine.running => Active # {}

\* The same for calls of start that end by returning: one returns only
\* with the flag down, or next to another call that is in progress.
C40_AfterReturn ==
    engine # None /\ engine.running /\ Active = {}
        => \E i \in 1..Len(starts) : starts[i].pc = "raised"

\* A step in which generate_signal raises and the exception leaves run.
AbortStep == pc = "running" /\ pc' = "idle" /\ raised' = "StrategyError"

C33_State ==
    raised = "StrategyError" =>
        /\ pc = "idle"
        /\ results = None
        /\ df = <<>> /\ idx = 0

C33_Step ==
    /\ AbortStep =>
          /\ results' = None
          /\ bt'.capital = bt.capital
          /\ bt'.positions = bt.positions
          /\ bt'.trades = bt.trades
          /\ bt'.equity_curve = bt.equity_curve
    /\ raised = "StrategyError" /\ RunStartStep =>
          /\ IsInitialState(bt')
          /\ raised' = "none"

\* C33. Strategy failure aborts the run.  When generate_signal raises at a
\* tick the exception leaves run: there is no result, no later tick is
\* processed, and capital, positions, trades and equity curve stay as the
\* ticks before left them; the next run begins from the initial state.
C33_StrategyFailureAborts == []C33_State /\ [][C33_Step]_vars

\* A run was aborted after a fill, and the fill is still in the instance.
C33_Witness ==
    /\ raised = "StrategyError"
    /\ pc = "idle"
    /\ Len(bt.trades) = 1
    /\ bt.capital < bt.initial_capital
    /\ BTC \in DOMAIN bt.positions

\* C34. Timestamps and equity stay aligned.  Whenever no call of run is in
\* progress, timestamps has one entry less than equity_curve, and
\* get_results_dataframe returns one row per timestamp, pairing
\* timestamps[i] with equity_curve[i + 1].
C34_Aligned ==
    pc = "idle" =>
        /\ Len(bt.timestamps) = Len(bt.equity_curve) - 1
        /\ LET frame == get_results_dataframe(bt)
           IN  /\ "rows" \in DOMAIN frame
               /\ Len(frame.rows) = Len(bt.timestamps)
               /\ \A i \in 1..Len(frame.rows) :
                     /\ frame.rows[i].timestamp = bt.timestamps[i]
                     /\ frame.rows[i].equity = bt.equity_curve[i + 1]

\* After an aborted run the two lists have the same length.
C34_AfterAbort ==
    pc = "idle" /\ raised = "StrategyError" /\ bt.timestamps # <<>> =>
        /\ Len(bt.timestamps) = Len(bt.equity_curve)
        /\ get_results_dataframe(bt) = [raised |-> "ValueError"]

\* The sum of `field` over the records of the trade log that have the given
\* action and a symbol of `symbols`.
RECURSIVE Booked(_, _, _, _)
Booked(trades, action, field, symbols) ==
    IF trades = <<>> THEN 0
    ELSE LET record == Head(trades)
         IN  (IF record.action = action /\ record.symbol \in symbols
              THEN record[field] ELSE 0)
                + Booked(Tail(trades), action, field, symbols)

\* C35. Accounting identity between state and trade log.  In every state
\* capital = initial_capital - (sum of cost over the buy records) + (sum of
\* proceeds over the sell records), and for every symbol the quantity held
\* (0 when absent from positions) is the sum of the buy amounts minus the
\* sum of the sell amounts recorded for it.
C35_AccountingIdentity ==
    /\ bt.capital = bt.initial_capital
                      - Booked(bt.trades, "buy", "cost", Symbols)
                      + Booked(bt.trades, "sell", "proceeds", Symbols)
    /\ \A sym \in Symbols :
          Get(bt.positions, sym, 0) =
              Booked(bt.trades, "buy", "amount", {sym})
                - Booked(bt.trades, "sell", "amount", {sym})
    /\ DOMAIN bt.positions \subseteq Symbols

\* A buy and a sell are in the log, the capital is off its initial value and
\* a position is held.
C35_Witness ==
    /\ pc = "running"
    /\ \E i, j \in 1..Len(bt.trades) :
          bt.trades[i].action = "buy" /\ bt.trades[j].action = "sell"
    /\ bt.capital # bt.initial_capital
    /\ bt.positions # EmptyDict

\* C36. Every executed fill has a positive amount.  A signal whose amount is
\* missing, zero or negative produces no trade record: every record of the
\* trade log has amount > 0.
C36_PositiveAmountFills ==
    \A i \in 1..Len(bt.trades) : bt.trades[i].amount > 0

\* In a step that processes a bar: the portfolio value at the bar's
\* reference prices before the signal is executed and after it, whether the
\* signal was filled, and the reference price it was filled at.
ValueBefore == _calculate_portfolio_value(bt, market_snapshot')
ValueAfter == _calculate_portfolio_value(bt', market_snapshot')
Filled == Len(bt'.trades) = Len(bt.trades) + 1
FillPrice == market_snapshot'[signal'.symbol].ticker.last

NoCosts(self) == self.slippage = 0 /\ self.commission = 0

\* The slippage and the commission are both above 100%: a sale is then paid
\* (1 - slippage) * (1 - commission) > 0 times the price.
BothAboveOne(self) == self.slippage > SlipDen /\ self.commission > CommDen

\* Every bar of every instrument closes at the same price.
ConstantPrices(hd) ==
    \A k \in 1..Len(hd) :
        \A i, j \in 1..Len(hd[k].df) : hd[k].df[i].close = hd[k].df[j].close

NonIncreasing(curve) ==
    \A i \in 1..(Len(curve) - 1) : curve[i + 1] <= curve[i]

C37_AnyRates_Step ==
    TickStep =>
        /\ ValueAfter <= ValueBefore
        /\ Filled /\ ValueAfter = ValueBefore => NoCosts(bt)

C37_AnyRates_State ==
    pc = "running" /\ ConstantPrices(historical_data)
        => NonIncreasing(bt.equity_curve)

\* C37, as stated.  With non-negative rates, non-negative prices and
\* positive amounts a fill never increases the portfolio value at the tick's
\* reference prices, and leaves it equal only when slippage and commission
\* are both zero; a run on constant prices has a non-increasing equity
\* curve.
C37_NoValueCreated == []C37_AnyRates_State /\ [][C37_AnyRates_Step]_vars

C37_Step ==
    TickStep /\ ~BothAboveOne(bt) =>
        /\ ValueAfter <= ValueBefore
        /\ Filled /\ ValueAfter = ValueBefore => NoCosts(bt) \/ FillPrice = 0

C37_State ==
    pc = "running" /\ ConstantPrices(historical_data) /\ ~BothAboveOne(bt)
        => NonIncreasing(bt.equity_curve)

\* C37. Trading costs never create value.  With non-negative rates that are
\* not both above 1, non-negative prices and positive amounts, a fill never
\* increases the portfolio value at the tick's reference prices; it leaves
\* the value equal only when both rates are zero or the reference price is
\* zero; a run on constant prices has a non-increasing equity curve.
C37_CostsNeverCreateValue == []C37_State /\ [][C37_Step]_vars

\* A sell was filled at a positive price under the default rates, and the
\* value fell.
C37_Witness ==
    /\ pc = "running" /\ idx = 2
    /\ bt.slippage = 1 /\ bt.commission = 1
    /\ Len(bt.trades) = 2
    /\ bt.trades[2].action = "sell" /\ bt.trades[2].price > 0
    /\ ConstantPrices(historical_data)
    /\ bt.equity_curve[3] < bt.equity_curve[2]

\* The value of every position at the snapshot's last prices, a position
\* whose symbol the snapshot lacks counting for nothing.
PositionsValue(self, snapshot) ==
    LET value == [s \in DOMAIN self.positions |->
                    IF s \in DOMAIN snapshot
                    THEN snapshot[s].ticker.last * self.positions[s]
                            * SlipDen * CommDen
                    ELSE 0]
    IN  SumOver(value, DOMAIN self.positions)

C38_State ==
    pc = "running" /\ idx > 0 =>
        /\ DOMAIN bt.positions \subseteq DOMAIN market_snapshot
        /\ Last(bt.equity_curve) = bt.capital + PositionsValue(bt, market_snapshot)
        /\ \A i \in 1..Len(bt.trades) :
              bt.trades[i].timestamp = Last(bt.timestamps)
                  => bt.trades[i].symbol \in DOMAIN market_snapshot

C38_Step ==
    TickStep => DOMAIN market_snapshot \subseteq DOMAIN market_snapshot'

\* C38. Every held position is always priced.  Fills are executed only for
\* symbols of the current snapshot, and a symbol of one tick's snapshot is
\* in the snapshot of every later tick; so at every tick every symbol of
\* positions is in the snapshot and counts positions[s] * last price in the
\* equity value.
C38_HeldPositionsPriced == []C38_State /\ [][C38_Step]_vars

\* At the second tick a position is held in the instrument that has no bar
\* at that timestamp; it is priced at the close of its first bar.
C38_Witness ==
    /\ pc = "running" /\ idx = 2
    /\ ETH \in DOMAIN bt.positions /\ bt.positions[ETH] > 0
    /\ \E k \in 1..Len(historical_data) :
          historical_data[k].symbol = ETH /\ historical_data[k].df = <<Bar(1, 5)>>
    /\ market_snapshot[ETH].ticker.last = 5

=============================================================================
